---- MODULE Spec2Model ----
(***************************************************************************)
(* A model of resTable<T,ID> (src/libCom/cxxTemplates/resourceLib.h), the   *)
(* linear-hashing resource table of EPICS base, instantiated with the      *)
(* integer identifier chronIntId = intId<unsigned,8,32>.                    *)
(*                                                                         *)
(* An entry of type T derives from its identifier, so an entry is          *)
(* represented by the value of its identifier; the null pointer is 0 and   *)
(* every identifier used is >= 1.                                           *)
(***************************************************************************)
EXTENDS Integers, Sequences, FiniteSets, Bags, TLC

(***************************************************************************)
(* Bounds of the exploration.                                               *)
(***************************************************************************)
\* the caller adds the entries 1 .. NumFill in ascending order and removes
\* them in descending order (they fill the table up to its split points)
NumFill == 18
\* the number of the DynIdPool identifiers that are added, removed and
\* looked up in any order
NumDyn == 1
\* the number of null returns after which the caller of resTableIter::next
\* stops calling it
MaxNulls == 2
\* the width w of the counter allocId of chronIntIdResTable, which is
\* unsigned in the source: the identifiers are 0 .. 2^w - 1 and allocId ++
\* is taken modulo 2^w
CounterBits == 3
\* the caller of chronIntIdResTable removes the entries whose identifier is
\* below MaxRemoveId
MaxRemoveId == 3
\* the number of the HintPool sizes that are offered to setTableSize
NumHints == 4

\* identifiers above 255, which integerHash folds: 272 hashes to 273 (low
\* bits 10001), 264 to 265 (01001), 539 to 537 (11001), 300 to 301, 1050 to
\* 1054, 2083 to 2091
DynIdPool == <<272, 264, 539, 300, 1050, 2083>>
\* arguments of setTableSize
HintPool == <<2, 17, 1, 0, 16, 33, 64>>

Min(a, b) == IF a < b THEN a ELSE b
FillIds == 1 .. NumFill
DynIds == { DynIdPool[i] : i \in 1 .. Min(NumDyn, Len(DynIdPool)) }
SizeHints == { HintPool[i] : i \in 1 .. Min(NumHints, Len(HintPool)) }
Ids == FillIds \cup DynIds

(***************************************************************************)
(* Machine arithmetic on unsigned (32 bit) values.                          *)
(***************************************************************************)
UnsignedBits == 32

RECURSIVE Pow2(_)
Pow2(n) == IF n = 0 THEN 1 ELSE 2 * Pow2(n - 1)

RECURSIVE BitAnd(_, _)
BitAnd(a, b) ==
    IF a = 0 \/ b = 0 THEN 0
    ELSE (a % 2) * (b % 2) + 2 * BitAnd(a \div 2, b \div 2)

RECURSIVE BitXor(_, _)
BitXor(a, b) ==
    IF a = 0 THEN b
    ELSE IF b = 0 THEN a
    ELSE ((a + b) % 2) + 2 * BitXor(a \div 2, b \div 2)

ShiftRight(a, n) == a \div Pow2(n)

\* a & ~b, bit by bit (the complement is never formed as a number)
RECURSIVE BitAndNot(_, _)
BitAndNot(a, b) ==
    IF a = 0 THEN 0
    ELSE (a % 2) * (1 - (b % 2)) + 2 * BitAndNot(a \div 2, b \div 2)

(***************************************************************************)
(* tsSLList<T>: the intrusive singly linked list of tsSLList.h, a sequence  *)
(* whose first element is the head of the chain.                            *)
(***************************************************************************)
\* the null pointer; an entry is written as its identifier, and every
\* unsigned value is an identifier
NullT == -1
EmptyList == << >>
\* tsSLList::add (push at the head)
ListAdd(list, item) == <<item>> \o list
\* tsSLList::get (pop the head), the remaining list
ListAfterGet(list) == IF list = EmptyList THEN EmptyList ELSE Tail(list)
ListFirst(list) == IF list = EmptyList THEN NullT ELSE Head(list)
\* unlinking the element at position i (tsSLList::remove of its
\* predecessor, or tsSLList::get when it is the head)
ListUnlink(list, i) ==
    [ j \in 1 .. (Len(list) - 1) |-> IF j < i THEN list[j] ELSE list[j + 1] ]

(***************************************************************************)
(* Identifier: chronIntId = intId<unsigned, 8, 32>.                          *)
(***************************************************************************)
MIN_INDEX_WIDTH == 8
MAX_ID_WIDTH == 32

RECURSIVE integerHashLoop(_, _, _)
integerHashLoop(minIndexWidth, widthIn, hashid) ==
    LET width == widthIn \div 2
        h == BitXor(hashid, ShiftRight(hashid, width))
    IN  IF width > minIndexWidth
        THEN integerHashLoop(minIndexWidth, width, h)
        ELSE h

integerHash(minIndexWidth, maxIdWidth, id) ==
    integerHashLoop(minIndexWidth, maxIdWidth, id)

intIdHash(id) == integerHash(MIN_INDEX_WIDTH, MAX_ID_WIDTH, id)
intIdEqual(a, b) == a = b

(***************************************************************************)
(* Identifier: stringId.  A character buffer is the sequence of its bytes, *)
(* the terminator and what the caller keeps behind it included; the hash   *)
(* is an unsigned word, written as the sequence of its bits, bit 0 first.  *)
(***************************************************************************)
\* the buffers the caller passes to the stringId constructor
NumStr == 5
StringPool ==
    << <<97, 98, 99, 100, 101, 0>>, <<97, 98, 99, 100, 101, 0, 102>>,
       <<97, 0>>, <<0>>, <<255, 254, 253, 252, 0>>,
       <<97, 0, 98, 0>>, <<98, 97, 99, 100, 101, 0>>, <<97, 98, 99, 0>> >>
allocationType == { "copyString", "refString" }
\* the null character pointer
NullStr == << >>

stringIdMinIndexWidth == 8
stringIdMaxIndexWidth == 4

fastHashPermutedIndexSpace ==
    <<  39, 159, 180, 252,  71,   6,  13, 164, 232,  35, 226, 155,  98, 120, 154,  69,
       157,  24, 137,  29, 147,  78, 121,  85, 112,   8, 248, 130,  55, 117, 190, 160,
       176, 131, 228,  64, 211, 106,  38,  27, 140,  30,  88, 210, 227, 104,  84,  77,
        75, 107, 169, 138, 195, 184,  70,  90,  61, 166,   7, 244, 165, 108, 219,  51,
         9, 139, 209,  40,  31, 202,  58, 179, 116,  33, 207, 146,  76,  60, 242, 124,
       254, 197,  80, 167, 153, 145, 129, 233, 132,  48, 246,  86, 156, 177,  36, 187,
        45,   1,  96,  18,  19,  62, 185, 234,  99,  16, 218,  95, 128, 224, 123, 253,
        42, 109,   4, 247,  72,   5, 151, 136,   0, 152, 148, 127, 204, 133,  17,  14,
       182, 217,  54, 199, 119, 174,  82,  57, 215,  41, 114, 208, 206, 110, 239,  23,
       189,  15,   3,  22, 188,  79, 113, 172,  28,   2, 222,  21, 251, 225, 237, 105,
       102,  32,  56, 181, 126,  83, 230,  53, 158,  52,  59, 213, 118, 100,  67, 142,
       220, 170, 144, 115, 205,  26, 125, 168, 249,  66, 175,  97, 255,  92, 229,  91,
       214, 236, 178, 243,  46,  44, 201, 250, 135, 186, 150, 221, 163, 216, 162,  43,
        11, 101,  34,  37, 194,  25,  50,  12,  87, 198, 173, 240, 193, 171, 143, 231,
       111, 141, 191, 103,  74, 245, 223,  20, 161, 235, 122,  63,  89, 149,  73, 238,
       134,  68,  93, 183, 241,  81, 196,  49, 192,  65, 212,  94, 203,  10, 200,  47 >>

\* the unsigned words, bit by bit
WordBits == 1 .. UnsignedBits
WordZero == [ i \in WordBits |-> 0 ]
\* hashid >> n
WordShiftRight(w, n) ==
    [ i \in WordBits |-> IF i + n <= UnsignedBits THEN w[i + n] ELSE 0 ]
\* a ^ b
WordXor(a, b) == [ i \in WordBits |-> (a[i] + b[i]) % 2 ]
\* the value of the k low bits of w
RECURSIVE WordLow(_, _)
WordLow(w, k) == IF k = 0 THEN 0 ELSE w[k] * Pow2(k - 1) + WordLow(w, k - 1)

\* integerHash () on a word: the same loop as integerHashLoop
RECURSIVE integerHashWordLoop(_, _, _)
integerHashWordLoop(minIndexWidth, widthIn, hashid) ==
    LET width == widthIn \div 2
        h == WordXor(hashid, WordShiftRight(hashid, width))
    IN  IF width > minIndexWidth
        THEN integerHashWordLoop(minIndexWidth, width, h)
        ELSE h

integerHashWord(minIndexWidth, maxIdWidth, id) ==
    integerHashWordLoop(minIndexWidth, maxIdWidth, id)

\* strlen (): the number of bytes before the first terminator
strlen(s) == (CHOOSE i \in 1 .. Len(s) :
                 s[i] = 0 /\ \A j \in 1 .. (i - 1) : s[j] # 0) - 1

\* strcmp (): the difference of the first bytes that differ, 0 when the
\* terminator is reached first
RECURSIVE strcmpFrom(_, _, _)
strcmpFrom(a, b, i) ==
    IF a[i] # b[i] THEN a[i] - b[i]
    ELSE IF a[i] = 0 THEN 0
    ELSE strcmpFrom(a, b, i + 1)

strcmp(a, b) == strcmpFrom(a, b, 1)

\* stringId::stringId (): copyString holds a new buffer with the bytes of
\* idIn up to and with the terminator, refString holds idIn itself
stringIdCtor(idIn, typeIn) ==
    [ pStr |-> IF typeIn = "copyString"
               THEN SubSeq(idIn, 1, strlen(idIn) + 1)
               ELSE idIn,
      allocType |-> typeIn ]

\* (mutant of stringIdEqual: identifiers of different allocation types are
\* never equal)
stringIdEqual_sameAlloc(this, idIn) ==
    IF this.pStr # NullStr /\ idIn.pStr # NullStr
    THEN strcmp(this.pStr, idIn.pStr) = 0 /\ this.allocType = idIn.allocType
    ELSE FALSE

\* stringId::operator ==
stringIdEqual(this, idIn) ==
    IF this.pStr # NullStr /\ idIn.pStr # NullStr
    THEN strcmp(this.pStr, idIn.pStr) = 0
    ELSE FALSE

\* the loop of stringId::hash (): the accumulators << h0, h1, h2, h3 >>
\* after the bytes from position p on, the byte at p going to lane
\* (p - 1) % 4
RECURSIVE stringIdLanes(_, _, _)
stringIdLanes(pUStr, p, h) ==
    LET c == pUStr[p]
        k == ((p - 1) % 4) + 1
    IN  IF c = 0
        THEN h
        ELSE stringIdLanes(pUStr, p + 1,
                 [ h EXCEPT ![k] = fastHashPermutedIndexSpace[BitXor(h[k], c) + 1] ])

\* ( h3 << 24 ) | ( h2 << 16 ) | ( h1 << 8 ) | h0
packLanes(h) ==
    [ i \in WordBits |->
        (h[((i - 1) \div 8) + 1] \div Pow2((i - 1) % 8)) % 2 ]

\* the last line of stringId::hash (): the packed word is mixed
mixLanes(w) == integerHashWord(stringIdMinIndexWidth, stringIdMaxIndexWidth, w)

\* stringId::hash ()
stringIdHash(this) ==
    IF this.pStr = NullStr
    THEN WordZero
    ELSE mixLanes(packLanes(stringIdLanes(this.pStr, 1, << 0, 0, 0, 0 >>)))

\* an entry of a resTable < T, stringId > is written as a number below
\* NullT that names the buffer it was constructed from and its allocation
\* type
StrEntry(k, typeIn) == NullT - (2 * k - (IF typeIn = "copyString" THEN 1 ELSE 0))
StrEntries == { StrEntry(k, a) : k \in 1 .. Min(NumStr, Len(StringPool)),
                                 a \in allocationType }
IsStrEntry(e) == e < NullT
entryBuffer(e) == StringPool[((NullT - e) + 1) \div 2]
entryType(e) == IF (NullT - e) % 2 = 1 THEN "copyString" ELSE "refString"
\* the stringId base of the entry
entryId(e) == stringIdCtor(entryBuffer(e), entryType(e))

\* the hash () of the stringId of every entry
entryHash == [ e \in StrEntries |-> stringIdHash(entryId(e)) ]
\* of that word, the bits that an index mask can select
entryHashLow == [ e \in StrEntries |-> WordLow(entryHash[e], UnsignedBits - 1) ]

\* idIn.hash () as resTable::hash calls it, for either identifier class
ID_hash(idIn) ==
    IF IsStrEntry(idIn)
    THEN entryHashLow[idIn]
    ELSE intIdHash(idIn)

\* id == idIn as resTable::find calls it, for either identifier class
ID_equal(a, b) ==
    IF IsStrEntry(a) /\ IsStrEntry(b)
    THEN stringIdEqual(entryId(a), entryId(b))
    ELSE intIdEqual(a, b)

(***************************************************************************)
(* recGbl: the alarm fields of dbCommon.  An event mask is the set of the  *)
(* DBE_ bits it holds, 0 the empty set.                                    *)
(***************************************************************************)
\* the severities and the number of calls of recGblSetSevr between two
\* calls of recGblResetAlarms that the caller makes
MaxSevr == 2
MaxOffers == 2
Severities == 0 .. MaxSevr
\* the statuses the caller offers, and those a record can hold
OfferedStatuses == { 1, 2 }
Statuses == { 0 } \cup OfferedStatuses

\* (mutant of recGblSetSevr: a severity equal to the pending one is taken)
recGblSetSevr_orEqual(precord, new_stat, new_sevr) ==
    IF precord.nsev <= new_sevr
    THEN [ prec |-> [ precord EXCEPT !.nsta = new_stat, !.nsev = new_sevr ],
           ret |-> TRUE ]
    ELSE [ prec |-> precord, ret |-> FALSE ]

\* recGblSetSevr (): the record afterwards and the value returned
recGblSetSevr(precord, new_stat, new_sevr) ==
    IF precord.nsev < new_sevr
    THEN [ prec |-> [ precord EXCEPT !.nsta = new_stat, !.nsev = new_sevr ],
           ret |-> TRUE ]
    ELSE [ prec |-> precord, ret |-> FALSE ]

\* (mutant of recGblResetAlarms: a change of stat alone is not reported)
recGblResetAlarms_sevrOnly(pdbc, hook) ==
    LET prev_stat == pdbc.stat
        prev_sevr == pdbc.sevr
        new_stat == pdbc.nsta
        new_sevr == pdbc.nsev
        p1 == [ pdbc EXCEPT !.stat = new_stat, !.sevr = new_sevr,
                            !.nsta = 0, !.nsev = 0 ]
        stat_mask == IF prev_sevr # new_sevr THEN { "DBE_ALARM" } ELSE { }
        post1 == IF prev_sevr # new_sevr
                 THEN << << "sevr", { "DBE_VALUE" } >> >> ELSE << >>
        ack == ~ pdbc.ackt \/ new_sevr >= pdbc.acks
    IN  IF stat_mask # { }
        THEN [ prec |-> IF ack THEN [ p1 EXCEPT !.acks = new_sevr ] ELSE p1,
               ret |-> { "DBE_ALARM" },
               posts |-> post1 \o << << "stat", stat_mask >> >>
                           \o (IF ack THEN << << "acks", { "DBE_VALUE" } >> >>
                                      ELSE << >>),
               hooked |-> hook ]
        ELSE [ prec |-> p1, ret |-> { }, posts |-> post1, hooked |-> FALSE ]

\* recGblResetAlarms (): the record afterwards, the mask returned, the
\* fields and masks passed to db_post_events in order, and whether the
\* alarm hook was called; hook tells whether recGblAlarmHook is not null
recGblResetAlarms(pdbc, hook) ==
    LET prev_stat == pdbc.stat
        prev_sevr == pdbc.sevr
        new_stat == pdbc.nsta
        new_sevr == pdbc.nsev
        p1 == [ pdbc EXCEPT !.stat = new_stat, !.sevr = new_sevr,
                            !.nsta = 0, !.nsev = 0 ]
        mask1 == IF prev_sevr # new_sevr THEN { "DBE_ALARM" } ELSE { }
        post1 == IF prev_sevr # new_sevr
                 THEN << << "sevr", { "DBE_VALUE" } >> >> ELSE << >>
        stat_mask == IF prev_stat # new_stat
                     THEN mask1 \cup { "DBE_VALUE" } ELSE mask1
        ack == ~ pdbc.ackt \/ new_sevr >= pdbc.acks
    IN  IF stat_mask # { }
        THEN [ prec |-> IF ack THEN [ p1 EXCEPT !.acks = new_sevr ] ELSE p1,
               ret |-> { "DBE_ALARM" },
               posts |-> post1 \o << << "stat", stat_mask >> >>
                           \o (IF ack THEN << << "acks", { "DBE_VALUE" } >> >>
                                      ELSE << >>),
               hooked |-> hook ]
        ELSE [ prec |-> p1, ret |-> { }, posts |-> post1, hooked |-> FALSE ]

(***************************************************************************)
(* resTable<T,ID>                                                           *)
(***************************************************************************)
VARIABLES
    pTable,                 \* the bucket array: the number n of buckets that are
                            \* allocated (0: the null pointer) and the chain of
                            \* every bucket that is not empty
    nextSplitIndex,
    hashIxMask,
    hashIxSplitMask,
    nBitsHashIxSplitMask,
    logBaseTwoTableSize,
    nInUse,
    last,                   \* the operation that was completed last
    resident,               \* history: added and not yet removed
    netAdds,                \* history: successful adds - successful removes
    fill,                   \* caller: the number of fill entries it holds in the table
    iter,                   \* resTableIter: the entry the list iterator points at
    iterIndex,              \* resTableIter: index, the bucket that is opened next
    walk,                   \* caller of the iterator: whether it holds one, the
                            \* entries next () has returned, its null returns
    allocId,                \* chronIntIdResTable: the identifier tried next
    chron,                  \* caller of chronIntIdResTable::add: whether a call
                            \* is running, the allocId it started from, the
                            \* passes of its loop, the calls made, whether
                            \* allocId has wrapped around
    mix,                    \* caller of integerHash: the arguments of the call
                            \* and the value returned
    prec,                   \* dbCommon: the fields stat, sevr, nsta, nsev,
                            \* acks and ackt of the record
    recGblAlarmHook,        \* whether a hook routine is installed
    offered,                \* history: the status and severity of the calls of
                            \* recGblSetSevr since the last recGblResetAlarms
    lastAlarm               \* the recGbl call that was completed last

tableVars == << pTable, nextSplitIndex, hashIxMask, hashIxSplitMask,
                nBitsHashIxSplitMask, logBaseTwoTableSize, nInUse >>
vars == << pTable, nextSplitIndex, hashIxMask, hashIxSplitMask,
           nBitsHashIxSplitMask, logBaseTwoTableSize, nInUse,
           last, resident, netAdds, fill, iter, iterIndex, walk, allocId, chron,
           mix, prec, recGblAlarmHook, offered, lastAlarm >>
iterVars == << iter, iterIndex, walk >>
chronVars == << allocId, chron >>
mixVars == << mix >>
alarmVars == << prec, recGblAlarmHook, offered, lastAlarm >>

NullTable == [ n |-> 0, chain |-> << >> ]

\* pTable[i]
bucket(pT, i) == IF i \in DOMAIN pT.chain THEN pT.chain[i] ELSE EmptyList

\* pTable[i] = list
setBucket(pT, i, list) ==
    [ pT EXCEPT !.chain =
        IF list = EmptyList
        THEN [ j \in (DOMAIN pT.chain) \ {i} |-> pT.chain[j] ]
        ELSE [ j \in (DOMAIN pT.chain) \cup {i} |->
                 IF j = i THEN list ELSE pT.chain[j] ] ]

\* the table object as a record, for the member functions below
This ==
    [ pTable |-> pTable, nextSplitIndex |-> nextSplitIndex,
      hashIxMask |-> hashIxMask, hashIxSplitMask |-> hashIxSplitMask,
      nBitsHashIxSplitMask |-> nBitsHashIxSplitMask,
      logBaseTwoTableSize |-> logBaseTwoTableSize, nInUse |-> nInUse ]

\* resTable::resTable ()
resTableCtor ==
    [ pTable |-> NullTable, nextSplitIndex |-> 0, hashIxMask |-> 0,
      hashIxSplitMask |-> 0, nBitsHashIxSplitMask |-> 0,
      logBaseTwoTableSize |-> 0, nInUse |-> 0 ]

resTableBitMask(nBits) == Pow2(nBits) - 1

\* (mutant of hash: the bucket at nextSplitIndex counts as split already)
hash_strictCompare(t, idIn) ==
    LET h == ID_hash(idIn)
        h0 == BitAnd(h, t.hashIxMask)
    IN  IF h0 > t.nextSplitIndex
        THEN h0
        ELSE BitAnd(h, t.hashIxSplitMask)

\* (mutant of hash: every bucket counts as split already)
hash_splitMaskOnly(t, idIn) == BitAnd(ID_hash(idIn), t.hashIxSplitMask)

\* resTable::hash ()
hash(t, idIn) ==
    LET h == ID_hash(idIn)
        h0 == BitAnd(h, t.hashIxMask)
    IN  IF h0 >= t.nextSplitIndex
        THEN h0
        ELSE BitAnd(h, t.hashIxSplitMask)

\* resTable::tableSize ()
tableSize(t) ==
    IF t.pTable # NullTable
    THEN (t.hashIxMask + 1) + t.nextSplitIndex
    ELSE 0

\* resTable::numEntriesInstalled ()
numEntriesInstalled(t) == t.nInUse

\* the position of the first element of the list that equals idIn, 0 if none
findPos(list, idIn) ==
    IF \E i \in 1 .. Len(list) : ID_equal(list[i], idIn)
    THEN CHOOSE i \in 1 .. Len(list) :
            /\ ID_equal(list[i], idIn)
            /\ \A j \in 1 .. (i - 1) : ~ ID_equal(list[j], idIn)
    ELSE 0

\* (mutant of find: only the head of the chain is compared)
find_headOnly(list, idIn) ==
    IF list # EmptyList /\ ID_equal(list[1], idIn) THEN list[1] ELSE NullT

\* resTable::find ()
find(list, idIn) ==
    LET i == findPos(list, idIn)
    IN  IF i = 0 THEN NullT ELSE list[i]

\* resTable::lookup ()
lookup(t, idIn) ==
    IF t.pTable # NullTable
    THEN find(bucket(t.pTable, hash(t, idIn)), idIn)
    ELSE NullT

\* (mutant of remove: the head of the chain is unlinked, whichever element
\* matched)
remove_unlinksHead(t, idIn) ==
    IF t.pTable # NullTable
    THEN LET ix == hash(t, idIn)
             list == bucket(t.pTable, ix)
             i == findPos(list, idIn)
         IN  IF i # 0
             THEN [ t |-> [ t EXCEPT !.pTable = setBucket(@, ix, ListUnlink(list, 1)),
                                     !.nInUse = t.nInUse - 1 ],
                    ret |-> list[i] ]
             ELSE [ t |-> t, ret |-> NullT ]
    ELSE [ t |-> t, ret |-> NullT ]

\* (mutant of remove: nInUse is not decremented)
remove_noDecrement(t, idIn) ==
    IF t.pTable # NullTable
    THEN LET ix == hash(t, idIn)
             list == bucket(t.pTable, ix)
             i == findPos(list, idIn)
         IN  IF i # 0
             THEN [ t |-> [ t EXCEPT !.pTable = setBucket(@, ix, ListUnlink(list, i)) ],
                    ret |-> list[i] ]
             ELSE [ t |-> t, ret |-> NullT ]
    ELSE [ t |-> t, ret |-> NullT ]

\* (mutant of remove: the match is unlinked together with the rest of its
\* chain)
remove_dropsTail(t, idIn) ==
    IF t.pTable # NullTable
    THEN LET ix == hash(t, idIn)
             list == bucket(t.pTable, ix)
             i == findPos(list, idIn)
         IN  IF i # 0
             THEN [ t |-> [ t EXCEPT !.pTable = setBucket(@, ix, SubSeq(list, 1, i - 1)),
                                     !.nInUse = t.nInUse - 1 ],
                    ret |-> list[i] ]
             ELSE [ t |-> t, ret |-> NullT ]
    ELSE [ t |-> t, ret |-> NullT ]

\* (mutant of remove: a miss is counted as a removal)
remove_countsMiss(t, idIn) ==
    IF t.pTable # NullTable
    THEN LET ix == hash(t, idIn)
             list == bucket(t.pTable, ix)
             i == findPos(list, idIn)
         IN  IF i # 0
             THEN [ t |-> [ t EXCEPT !.pTable = setBucket(@, ix, ListUnlink(list, i)),
                                     !.nInUse = t.nInUse - 1 ],
                    ret |-> list[i] ]
             ELSE [ t |-> [ t EXCEPT !.nInUse = IF @ > 0 THEN @ - 1 ELSE 0 ],
                    ret |-> NullT ]
    ELSE [ t |-> t, ret |-> NullT ]

\* resTable::remove (): the table afterwards and the pointer returned
remove(t, idIn) ==
    IF t.pTable # NullTable
    THEN LET ix == hash(t, idIn)
             list == bucket(t.pTable, ix)
             i == findPos(list, idIn)
         IN  IF i # 0
             THEN [ t |-> [ t EXCEPT !.pTable = setBucket(@, ix, ListUnlink(list, i)),
                                     !.nInUse = t.nInUse - 1 ],
                    ret |-> list[i] ]
             ELSE [ t |-> t, ret |-> NullT ]
    ELSE [ t |-> t, ret |-> NullT ]

\* (mutant of dontShrink: only the present size is left alone)
dontShrink_onlyEqual(t, logBaseTwoTableSizeIn) ==
    t.logBaseTwoTableSize = logBaseTwoTableSizeIn

\* the "dont shrink" test of resTable::setTableSizePrivate ()
dontShrink(t, logBaseTwoTableSizeIn) ==
    t.logBaseTwoTableSize >= logBaseTwoTableSizeIn

\* (mutant of oldTableOccupiedSize: the buckets made by the splits of the
\* current generation are forgotten)
oldTableOccupiedSize_unsplitOnly(t) ==
    IF t.pTable # NullTable THEN t.hashIxMask + 1 ELSE 0

\* the number of buckets that resTable::setTableSizePrivate () migrates
oldTableOccupiedSize(t) == tableSize(t)

\* (mutant of rethrow: the failure of the first allocation is swallowed)
rethrow_never(t) == FALSE

\* the catch clause of resTable::setTableSizePrivate (): the exception of
\* operator new is thrown again when the table has no storage yet
rethrow(t) == t.pTable = NullTable

\* resTable::setTableSizePrivate (): allocOk tells whether operator new
\* succeeds, should it be called
setTableSizePrivate(t, logBaseTwoTableSizeArg, allocOk) ==
    IF dontShrink(t, logBaseTwoTableSizeArg)
    THEN [ t |-> t, success |-> TRUE, threw |-> FALSE, tried |-> FALSE ]
    ELSE
      LET logBaseTwoTableSizeIn ==
              IF logBaseTwoTableSizeArg < 4 THEN 4 ELSE logBaseTwoTableSizeArg
          newTableSize == Pow2(logBaseTwoTableSizeIn)
          pNewTable ==
              [ n |-> newTableSize,
                chain |-> [ i \in { j \in DOMAIN t.pTable.chain :
                                      j < oldTableOccupiedSize(t) } |->
                              t.pTable.chain[i] ] ]
          t1 == IF t.pTable = NullTable
                THEN [ t EXCEPT
                         !.hashIxSplitMask = resTableBitMask(logBaseTwoTableSizeIn),
                         !.nBitsHashIxSplitMask = logBaseTwoTableSizeIn,
                         !.hashIxMask =
                             ShiftRight(resTableBitMask(logBaseTwoTableSizeIn), 1),
                         !.nextSplitIndex = 0 ]
                ELSE t
      IN  IF ~ allocOk
          THEN [ t |-> t, success |-> FALSE,
                 threw |-> rethrow(t), tried |-> TRUE ]
          ELSE [ t |-> [ t1 EXCEPT !.pTable = pNewTable,
                                   !.logBaseTwoTableSize = logBaseTwoTableSizeIn ],
                 success |-> TRUE, threw |-> FALSE, tried |-> TRUE ]

\* (mutant of countBits: one bit more than the bits of newMask)
RECURSIVE countBits_oneMore(_, _)
countBits_oneMore(newMask, nbits) ==
    IF nbits < UnsignedBits
       /\ BitAndNot(newMask, resTableBitMask(nbits)) # 0
    THEN countBits_oneMore(newMask, nbits + 1)
    ELSE nbits + 1

\* the loop of resTable::setTableSize () that counts the bits of newMask
RECURSIVE countBits(_, _)
countBits(newMask, nbits) ==
    IF nbits < UnsignedBits
       /\ BitAndNot(newMask, resTableBitMask(nbits)) # 0
    THEN countBits(newMask, nbits + 1)
    ELSE nbits

\* resTable::setTableSize ()
setTableSize(t, newTableSize, allocOk) ==
    IF newTableSize = 0
    THEN [ t |-> t, success |-> TRUE, threw |-> FALSE, tried |-> FALSE ]
    ELSE setTableSizePrivate(t, countBits(newTableSize - 1, 0), allocOk)

\* the loop of resTable::splitBucket () that rehashes the items of tmp
RECURSIVE rehash(_, _)
rehash(t, tmp) ==
    IF tmp = EmptyList
    THEN t
    ELSE LET pItem == ListFirst(tmp)
             index == hash(t, pItem)
         IN  rehash([ t EXCEPT !.pTable =
                        setBucket(@, index, ListAdd(bucket(@, index), pItem)) ],
                    ListAfterGet(tmp))

\* (mutant of doubleDue: the table is doubled one split too late)
doubleDue_late(t) == t.nextSplitIndex > t.hashIxMask + 1

\* the "double the hash table when necessary" test of resTable::splitBucket ()
doubleDue(t) == t.nextSplitIndex > t.hashIxMask

\* (mutant of splitBucket: nextSplitIndex is incremented after the items
\* were rehashed, not before)
splitBucket_incrementAfterRehash(t, allocOk) ==
    LET double == doubleDue(t)
        r == setTableSizePrivate(t, t.nBitsHashIxSplitMask + 1, allocOk)
        t1 == IF double
              THEN [ r.t EXCEPT
                       !.nBitsHashIxSplitMask = t.nBitsHashIxSplitMask + 1,
                       !.hashIxSplitMask =
                           resTableBitMask(t.nBitsHashIxSplitMask + 1),
                       !.hashIxMask =
                           ShiftRight(resTableBitMask(t.nBitsHashIxSplitMask + 1), 1),
                       !.nextSplitIndex = 0 ]
              ELSE t
        tmp == bucket(t1.pTable, t1.nextSplitIndex)
        t2 == [ t1 EXCEPT !.pTable = setBucket(@, t1.nextSplitIndex, EmptyList) ]
    IN  IF double /\ ~ r.success
        THEN [ t |-> t, tried |-> r.tried, failed |-> TRUE ]
        ELSE [ t |-> [ rehash(t2, tmp) EXCEPT !.nextSplitIndex = t1.nextSplitIndex + 1 ],
               tried |-> double /\ r.tried, failed |-> FALSE ]

\* (mutant of splitBucket: the rollover does not reset nextSplitIndex)
splitBucket_keepSplitIndex(t, allocOk) ==
    LET double == doubleDue(t)
        r == setTableSizePrivate(t, t.nBitsHashIxSplitMask + 1, allocOk)
        t1 == IF double
              THEN [ r.t EXCEPT
                       !.nBitsHashIxSplitMask = t.nBitsHashIxSplitMask + 1,
                       !.hashIxSplitMask =
                           resTableBitMask(t.nBitsHashIxSplitMask + 1),
                       !.hashIxMask =
                           ShiftRight(resTableBitMask(t.nBitsHashIxSplitMask + 1), 1) ]
              ELSE t
        tmp == bucket(t1.pTable, t1.nextSplitIndex)
        t2 == [ t1 EXCEPT !.pTable = setBucket(@, t1.nextSplitIndex, EmptyList),
                          !.nextSplitIndex = t1.nextSplitIndex + 1 ]
    IN  IF double /\ ~ r.success
        THEN [ t |-> t, tried |-> r.tried, failed |-> TRUE ]
        ELSE [ t |-> rehash(t2, tmp), tried |-> double /\ r.tried, failed |-> FALSE ]

\* resTable::splitBucket ()
splitBucket(t, allocOk) ==
    LET double == doubleDue(t)
        r == setTableSizePrivate(t, t.nBitsHashIxSplitMask + 1, allocOk)
        t1 == IF double
              THEN [ r.t EXCEPT
                       !.nBitsHashIxSplitMask = t.nBitsHashIxSplitMask + 1,
                       !.hashIxSplitMask =
                           resTableBitMask(t.nBitsHashIxSplitMask + 1),
                       !.hashIxMask =
                           ShiftRight(resTableBitMask(t.nBitsHashIxSplitMask + 1), 1),
                       !.nextSplitIndex = 0 ]
              ELSE t
        tmp == bucket(t1.pTable, t1.nextSplitIndex)
        t2 == [ t1 EXCEPT !.pTable = setBucket(@, t1.nextSplitIndex, EmptyList),
                          !.nextSplitIndex = t1.nextSplitIndex + 1 ]
    IN  IF double /\ ~ r.success
        THEN [ t |-> t, tried |-> r.tried, failed |-> TRUE ]
        ELSE [ t |-> rehash(t2, tmp), tried |-> double /\ r.tried, failed |-> FALSE ]

\* (mutant of addTail: the entry is linked without looking for a duplicate)
addTail_noFind(t, res) ==
    LET ix == hash(t, res)
        list == bucket(t.pTable, ix)
    IN  [ t |-> [ t EXCEPT !.pTable = setBucket(@, ix, ListAdd(list, res)),
                           !.nInUse = t.nInUse + 1 ],
          ret |-> 0 ]

\* the tail of resTable::add (): find in the target bucket, then link
addTail(t, res) ==
    LET ix == hash(t, res)
        list == bucket(t.pTable, ix)
    IN  IF find(list, res) # NullT
        THEN [ t |-> t, ret |-> -1 ]
        ELSE [ t |-> [ t EXCEPT !.pTable = setBucket(@, ix, ListAdd(list, res)),
                                !.nInUse = t.nInUse + 1 ],
               ret |-> 0 ]

\* (mutant of splitDue: the split is made one entry early)
splitDue_early(t) == t.nInUse + 1 >= tableSize(t)

\* (mutant of splitDue: an add never splits)
splitDue_never(t) == FALSE

\* (mutant of splitDue: the split is made one entry late)
splitDue_late(t) == t.nInUse > tableSize(t)

\* the test of resTable::add () that starts a split step
splitDue(t) == t.nInUse >= tableSize(t)

\* (mutant of add: an add whose split step could not grow the table gives up)
add_abandonOnFailure(t, res, allocOk) ==
    IF t.pTable = NullTable
    THEN LET r == setTableSizePrivate(t, 10, allocOk)
         IN  IF r.threw
             THEN [ t |-> t, ret |-> 0, threw |-> TRUE, split |-> FALSE,
                    tried |-> TRUE, failed |-> TRUE ]
             ELSE LET a == addTail(r.t, res)
                  IN  [ t |-> a.t, ret |-> a.ret, threw |-> FALSE,
                        split |-> FALSE, tried |-> r.tried, failed |-> FALSE ]
    ELSE IF splitDue(t)
    THEN LET s == splitBucket(t, allocOk)
             a == IF s.failed THEN [ t |-> s.t, ret |-> -1 ] ELSE addTail(s.t, res)
         IN  [ t |-> a.t, ret |-> a.ret, threw |-> FALSE, split |-> TRUE,
               tried |-> s.tried, failed |-> s.failed ]
    ELSE LET a == addTail(t, res)
         IN  [ t |-> a.t, ret |-> a.ret, threw |-> FALSE, split |-> FALSE,
               tried |-> FALSE, failed |-> FALSE ]

\* resTable::add (): the table afterwards, the status returned, whether the
\* call threw, whether it ran splitBucket, whether an allocation was tried
\* and whether it failed
add(t, res, allocOk) ==
    IF t.pTable = NullTable
    THEN LET r == setTableSizePrivate(t, 10, allocOk)
         IN  IF r.threw
             THEN [ t |-> t, ret |-> 0, threw |-> TRUE, split |-> FALSE,
                    tried |-> TRUE, failed |-> TRUE ]
             ELSE LET a == addTail(r.t, res)
                  IN  [ t |-> a.t, ret |-> a.ret, threw |-> FALSE,
                        split |-> FALSE, tried |-> r.tried, failed |-> FALSE ]
    ELSE IF splitDue(t)
    THEN LET s == splitBucket(t, allocOk)
             a == addTail(s.t, res)
         IN  [ t |-> a.t, ret |-> a.ret, threw |-> FALSE, split |-> TRUE,
               tried |-> s.tried, failed |-> s.failed ]
    ELSE LET a == addTail(t, res)
         IN  [ t |-> a.t, ret |-> a.ret, threw |-> FALSE, split |-> FALSE,
               tried |-> FALSE, failed |-> FALSE ]

\* tsSLIter::operator ++ on an iterator that points at the entry p: the
\* pNext of p, that is the entry after p in the chain that holds p
nextOf(t, p) ==
    LET holds == { j \in DOMAIN t.pTable.chain :
                     \E k \in 1 .. Len(t.pTable.chain[j]) : t.pTable.chain[j][k] = p }
    IN  IF holds = {} THEN NullT
        ELSE LET list == t.pTable.chain[CHOOSE j \in holds : TRUE]
                 k == CHOOSE k \in 1 .. Len(list) : list[k] = p
             IN  IF k < Len(list) THEN list[k + 1] ELSE NullT

\* the member function that resTable::traverse () is given: "none" changes
\* nothing, "removeSelf" removes from the table the entry it is invoked on
CallBacks == { "none", "removeSelf" }
pCB(t, pItem, cb) ==
    IF cb = "removeSelf" THEN remove(t, pItem).t ELSE t

\* (mutant of traverseChain: the cursor is advanced after the callback)
RECURSIVE traverseChain_advanceAfter(_, _, _, _)
traverseChain_advanceAfter(t, pItem, cb, calls) ==
    IF pItem = NullT
    THEN [ t |-> t, calls |-> calls ]
    ELSE LET t1 == pCB(t, pItem, cb)
         IN  traverseChain_advanceAfter(t1, nextOf(t1, pItem), cb,
                                        Append(calls, pItem))

\* the while loop of resTable::traverse (): the walk along one chain from
\* pItem on; calls collects the entries the callback is invoked on
RECURSIVE traverseChain(_, _, _, _)
traverseChain(t, pItem, cb, calls) ==
    IF pItem = NullT
    THEN [ t |-> t, calls |-> calls ]
    ELSE LET pNext == nextOf(t, pItem)
         IN  traverseChain(pCB(t, pItem, cb), pNext, cb, Append(calls, pItem))

\* the for loop of resTable::traverse () over the buckets i .. N-1 (a bucket
\* that is empty when the loop reaches it is stepped over)
RECURSIVE traverseBuckets(_, _, _, _, _)
traverseBuckets(t, i, N, cb, calls) ==
    LET rest == { j \in DOMAIN t.pTable.chain : i <= j /\ j < N }
    IN  IF rest = {} THEN [ t |-> t, calls |-> calls ]
        ELSE LET b == CHOOSE j \in rest : \A k \in rest : j <= k
                 w == traverseChain(t, ListFirst(bucket(t.pTable, b)), cb, calls)
             IN  traverseBuckets(w.t, b + 1, N, cb, w.calls)

\* resTable::traverse () with the callback cb
traverseCB(t, cb) == traverseBuckets(t, 0, tableSize(t), cb, << >>)

\* (mutant of resTableIterCtor: the bucket opened next is bucket 0 again)
resTableIterCtor_indexZero(t) ==
    [ iter |-> IF t.pTable # NullTable THEN ListFirst(bucket(t.pTable, 0))
                                       ELSE NullT,
      index |-> 0 ]

\* resTableIter::resTableIter (): the fields iter and index
resTableIterCtor(t) ==
    [ iter |-> IF t.pTable # NullTable THEN ListFirst(bucket(t.pTable, 0))
                                       ELSE NullT,
      index |-> 1 ]

\* resTableIter::next (): the iterator afterwards and the pointer returned.
\* The while loop opens the buckets from index on until one is not empty or
\* index reaches N: rest holds the buckets it can stop at.
resTableIterNext(t, it) ==
    IF it.iter # NullT
    THEN [ it |-> [ it EXCEPT !.iter = nextOf(t, it.iter) ], ret |-> it.iter ]
    ELSE LET N == tableSize(t)
             rest == { j \in DOMAIN t.pTable.chain : it.index <= j /\ j < N }
         IN  IF rest = {}
             THEN [ it |-> [ it EXCEPT !.index = IF @ >= N THEN @ ELSE N ],
                    ret |-> NullT ]
             ELSE LET b == CHOOSE j \in rest : \A k \in rest : j <= k
                      p == ListFirst(bucket(t.pTable, b))
                  IN  [ it |-> [ iter |-> nextOf(t, p), index |-> b + 1 ],
                        ret |-> p ]

\* (mutant of chronIntIdResTableCtor: allocId starts at 0)
chronIntIdResTableCtor_zero == [ allocId |-> 0 ]

\* chronIntIdResTable::chronIntIdResTable (): allocId (1u)
chronIntIdResTableCtor == [ allocId |-> 1 ]

\* allocId ++ on the unsigned counter of CounterBits bits: the value after
postIncrement(a) == (a + 1) % Pow2(CounterBits)

\* chronIntIdRes::setId (): the item, which is written as its identifier
setId(newId) == newId

\* (mutant of retry: the loop of chronIntIdResTable::add is left after the
\* first attempt)
retry_never(status) == FALSE

\* the condition while ( status ) of chronIntIdResTable::add ()
retry(status) == status # 0

\* one pass of the do loop of chronIntIdResTable::add (): the table and
\* allocId afterwards, the identifier given to the item, the status of
\* resTable::add, whether it threw and whether the loop goes round again
chronIntIdResTableAddPass(t, a, allocOk) ==
    LET item == setId(a)
        r == add(t, item, allocOk)
    IN  [ t |-> r.t, allocId |-> postIncrement(a), id |-> item,
          status |-> r.ret, threw |-> r.threw, split |-> r.split,
          tried |-> r.tried, failed |-> r.failed,
          again |-> ~ r.threw /\ retry(r.ret) ]

(***************************************************************************)
(* The state machine: one action for each public operation.                 *)
(***************************************************************************)
\* the caller holds no iterator
NoWalk == [ on |-> FALSE, seq |-> << >>, nulls |-> 0 ]
\* no call of chronIntIdResTable::add is running and none was made
NoCall == [ pc |-> "idle", start |-> 0, passes |-> 0, calls |-> 0,
            wrapped |-> FALSE ]

Store(t) ==
    /\ pTable' = t.pTable
    /\ nextSplitIndex' = t.nextSplitIndex
    /\ hashIxMask' = t.hashIxMask
    /\ hashIxSplitMask' = t.hashIxSplitMask
    /\ nBitsHashIxSplitMask' = t.nBitsHashIxSplitMask
    /\ logBaseTwoTableSize' = t.logBaseTwoTableSize
    /\ nInUse' = t.nInUse

\* what the caller keeps of the last call: its argument and result, whether
\* it threw, ran a split step, tried an allocation that failed, and for
\* remove the position of the match in its chain and the length of the chain,
\* for traverse the callback and the entries it was invoked on, in order
NoOp ==
    [ op |-> "none", id |-> 0, ret |-> 0, threw |-> FALSE, split |-> FALSE,
      tried |-> FALSE, failed |-> FALSE, pos |-> 0, len |-> 0,
      cb |-> "none", calls |-> << >> ]

\* no call of integerHash was made
NoMix == [ minIndexWidth |-> MIN_INDEX_WIDTH, maxIdWidth |-> MAX_ID_WIDTH,
           id |-> 0, hashid |-> 0, pc |-> "idle" ]
\* a record that was never processed
NoRecord == [ stat |-> 0, sevr |-> 0, nsta |-> 0, nsev |-> 0,
              acks |-> 0, ackt |-> FALSE ]
\* no recGbl call was made
NoAlarmOp == [ op |-> "none", stat |-> 0, sevr |-> 0, ret |-> FALSE,
               mask |-> { }, posts |-> << >>, hooked |-> FALSE ]

\* the table and its callers after construction
InitTable ==
    /\ pTable = resTableCtor.pTable
    /\ nextSplitIndex = resTableCtor.nextSplitIndex
    /\ hashIxMask = resTableCtor.hashIxMask
    /\ hashIxSplitMask = resTableCtor.hashIxSplitMask
    /\ nBitsHashIxSplitMask = resTableCtor.nBitsHashIxSplitMask
    /\ logBaseTwoTableSize = resTableCtor.logBaseTwoTableSize
    /\ nInUse = resTableCtor.nInUse
    /\ last = NoOp
    /\ resident = {}
    /\ netAdds = 0
    /\ fill = 0
    /\ iter = NullT
    /\ iterIndex = 0
    /\ walk = NoWalk
    /\ allocId = chronIntIdResTableCtor.allocId
    /\ chron = NoCall

\* integerHash is not called
InitMix == mix = NoMix

\* no record is processed
InitAlarm ==
    /\ prec = NoRecord
    /\ recGblAlarmHook = FALSE
    /\ offered = << >>
    /\ lastAlarm = NoAlarmOp

Init == InitTable /\ InitMix /\ InitAlarm

\* the identifiers the caller may pass to add, to remove and to lookup
AddIds == DynIds \cup { i \in FillIds : i = fill + 1 }
RemoveIds == DynIds \cup { i \in FillIds : i = fill }
LookupIds == { DynIdPool[1] }

Add(id, allocOk) ==
    \E r \in { add(This, id, allocOk) } :
      LET ok == ~ r.threw /\ r.ret = 0
      IN
        /\ allocOk \/ r.tried
        /\ Store(r.t)
        /\ last' = [ NoOp EXCEPT !.op = "add", !.id = id, !.ret = r.ret,
                                 !.threw = r.threw, !.split = r.split,
                                 !.tried = r.tried, !.failed = r.failed ]
        /\ resident' = IF ok THEN resident \cup {id} ELSE resident
        /\ netAdds' = IF ok THEN netAdds + 1 ELSE netAdds
        /\ fill' = IF ok /\ id \in FillIds THEN fill + 1 ELSE fill

Remove(id) ==
    \E r \in { remove(This, id) } :
      LET ok == r.ret # NullT
      IN
        /\ Store(r.t)
        /\ last' = [ NoOp EXCEPT
                       !.op = "remove", !.id = id, !.ret = r.ret,
                       !.pos = findPos(bucket(pTable, hash(This, id)), id),
                       !.len = Len(bucket(pTable, hash(This, id))) ]
        /\ resident' = IF ok THEN resident \ {r.ret} ELSE resident
        /\ netAdds' = IF ok THEN netAdds - 1 ELSE netAdds
        /\ fill' = IF ok /\ r.ret \in FillIds THEN fill - 1 ELSE fill

Lookup(id) ==
    /\ last' = [ NoOp EXCEPT !.op = "lookup", !.id = id, !.ret = lookup(This, id) ]
    /\ UNCHANGED << tableVars, resident, netAdds, fill >>

Traverse(cb) ==
    \E r \in { traverseCB(This, cb) } :
        /\ Store(r.t)
        /\ last' = [ NoOp EXCEPT !.op = "traverse", !.cb = cb, !.calls = r.calls ]
        /\ resident' = IF cb = "removeSelf"
                       THEN resident \ { r.calls[k] : k \in 1 .. Len(r.calls) }
                       ELSE resident
        /\ netAdds' = IF cb = "removeSelf" THEN netAdds - Len(r.calls) ELSE netAdds
        /\ fill' = Cardinality(FillIds \cap resident')

SetTableSize(newTableSize, allocOk) ==
    \E r \in { setTableSize(This, newTableSize, allocOk) } :
        /\ allocOk \/ r.tried
        /\ Store(r.t)
        /\ last' = [ NoOp EXCEPT !.op = "setTableSize", !.id = newTableSize,
                                 !.threw = r.threw, !.tried = r.tried,
                                 !.failed = r.tried /\ ~ r.success ]
        /\ UNCHANGED << resident, netAdds, fill >>

\* the caller uses the table as a resTable: it holds no iterator and does
\* not call chronIntIdResTable::add
Next ==
    /\ \/ \E id \in AddIds, allocOk \in BOOLEAN : Add(id, allocOk)
       \/ \E id \in RemoveIds : Remove(id)
       \/ \E id \in LookupIds : Lookup(id)
       \/ \E n \in SizeHints, allocOk \in BOOLEAN : SetTableSize(n, allocOk)
       \/ \E cb \in CallBacks : Traverse(cb)
    /\ UNCHANGED << iterVars, chronVars, mixVars, alarmVars >>

Spec == Init /\ [][Next]_vars

(***************************************************************************)
(* The caller that walks the table with a resTableIter.  It does not       *)
(* change the table while it holds an iterator: a call that may change the *)
(* table ends the walk.                                                    *)
(***************************************************************************)
\* resTableIter::resTableIter ()
IterNew ==
    \E it \in { resTableIterCtor(This) } :
        /\ iter' = it.iter
        /\ iterIndex' = it.index
        /\ walk' = [ on |-> TRUE, seq |-> << >>, nulls |-> 0 ]
        /\ last' = [ NoOp EXCEPT !.op = "iter" ]
        /\ UNCHANGED << tableVars, resident, netAdds, fill, chronVars >>

\* resTableIter::next ()
IterNext ==
    /\ walk.on
    /\ walk.nulls < MaxNulls
    /\ \E r \in { resTableIterNext(This, [ iter |-> iter, index |-> iterIndex ]) } :
        /\ iter' = r.it.iter
        /\ iterIndex' = r.it.index
        /\ walk' = IF r.ret = NullT
                   THEN [ walk EXCEPT !.nulls = @ + 1 ]
                   ELSE [ walk EXCEPT !.seq = Append(@, r.ret) ]
    /\ UNCHANGED << tableVars, last, resident, netAdds, fill, chronVars >>

NextIter ==
    /\ \/ /\ \/ \E id \in AddIds, allocOk \in BOOLEAN : Add(id, allocOk)
             \/ \E n \in SizeHints, allocOk \in BOOLEAN : SetTableSize(n, allocOk)
          /\ iter' = NullT
          /\ iterIndex' = 0
          /\ walk' = NoWalk
          /\ UNCHANGED chronVars
       \/ IterNew
       \/ IterNext
    /\ UNCHANGED << mixVars, alarmVars >>

SpecIter == Init /\ [][NextIter]_vars

(***************************************************************************)
(* The caller that uses the table as a chronIntIdResTable: every entry is  *)
(* added with chronIntIdResTable::add, which chooses its identifier.  Each *)
(* call adds an item of its own.  The do loop of add is taken one pass at  *)
(* a time; the caller does nothing else while a call is running.           *)
(***************************************************************************)
ChronIds == 0 .. (Pow2(CounterBits) - 1)
\* the passes of one call are counted up to one more than there are
\* identifiers
MaxPasses == Pow2(CounterBits) + 1
ChronRemoveIds == { i \in ChronIds : i < MaxRemoveId }

\* the pass p of the do loop is stored
ChronStore(p) ==
    /\ Store(p.t)
    /\ allocId' = p.allocId
    /\ last' = [ NoOp EXCEPT !.op = "chronAdd", !.id = p.id, !.ret = p.status,
                             !.threw = p.threw, !.split = p.split,
                             !.tried = p.tried, !.failed = p.failed ]
    /\ resident' = IF ~ p.threw /\ p.status = 0 THEN resident \cup { p.id }
                                                ELSE resident
    /\ netAdds' = IF ~ p.threw /\ p.status = 0 THEN netAdds + 1 ELSE netAdds
    /\ UNCHANGED fill

\* chronIntIdResTable::add (): the call and the first pass of its loop
ChronAdd(allocOk) ==
    /\ chron.pc = "idle"
    /\ \E p \in { chronIntIdResTableAddPass(This, allocId, allocOk) } :
        /\ allocOk \/ p.tried
        /\ ChronStore(p)
        /\ chron' = [ pc |-> IF p.again THEN "probing" ELSE "idle",
                      start |-> allocId,
                      passes |-> 1,
                      calls |-> IF chron.wrapped THEN chron.calls
                                                 ELSE chron.calls + 1,
                      wrapped |-> chron.wrapped \/ p.allocId = 0 ]

\* chronIntIdResTable::add (): a further pass of the loop
ChronProbe(allocOk) ==
    /\ chron.pc = "probing"
    /\ \E p \in { chronIntIdResTableAddPass(This, allocId, allocOk) } :
        /\ allocOk \/ p.tried
        /\ ChronStore(p)
        /\ chron' = [ chron EXCEPT !.pc = IF p.again THEN "probing" ELSE "idle",
                                   !.passes = Min(@ + 1, MaxPasses),
                                   !.wrapped = @ \/ p.allocId = 0 ]

\* resTable::remove () on the chronIntIdResTable
ChronRemove(id) ==
    /\ chron.pc = "idle"
    /\ \E r \in { remove(This, id) } :
        /\ Store(r.t)
        /\ last' = [ NoOp EXCEPT !.op = "remove", !.id = id, !.ret = r.ret ]
        /\ resident' = IF r.ret # NullT THEN resident \ { r.ret } ELSE resident
        /\ netAdds' = IF r.ret # NullT THEN netAdds - 1 ELSE netAdds
    /\ UNCHANGED << fill, chronVars >>

\* resTable::setTableSize () on the chronIntIdResTable, which this caller
\* sizes before it adds the first item
ChronSetTableSize(newTableSize, allocOk) ==
    /\ chron.pc = "idle"
    /\ chron.calls = 0
    /\ SetTableSize(newTableSize, allocOk)
    /\ UNCHANGED chronVars

NextChron ==
    /\ \/ \E allocOk \in BOOLEAN : ChronAdd(allocOk)
       \/ \E allocOk \in BOOLEAN : ChronProbe(allocOk)
       \/ \E id \in ChronRemoveIds : ChronRemove(id)
       \/ \E n \in SizeHints, allocOk \in BOOLEAN : ChronSetTableSize(n, allocOk)
    /\ UNCHANGED << iterVars, mixVars, alarmVars >>

SpecChron == Init /\ [][NextChron]_vars

(***************************************************************************)
(* The caller that uses the table as a resTable < T, stringId >: it adds,  *)
(* looks up and removes entries whose identifiers it constructs from its   *)
(* buffers, under either allocation type.                                  *)
(***************************************************************************)
StrAdd(e, allocOk) ==
    \E r \in { add(This, e, allocOk) } :
      LET ok == ~ r.threw /\ r.ret = 0
      IN
        /\ allocOk \/ r.tried
        /\ Store(r.t)
        /\ last' = [ NoOp EXCEPT !.op = "add", !.id = e, !.ret = r.ret,
                                 !.threw = r.threw, !.split = r.split,
                                 !.tried = r.tried, !.failed = r.failed ]
        /\ resident' = IF ok THEN resident \cup {e} ELSE resident
        /\ UNCHANGED << netAdds, fill >>

StrLookup(e) ==
    /\ last' = [ NoOp EXCEPT !.op = "lookup", !.id = e, !.ret = lookup(This, e) ]
    /\ UNCHANGED << tableVars, resident, netAdds, fill >>

StrRemove(e) ==
    \E r \in { remove(This, e) } :
        /\ Store(r.t)
        /\ last' = [ NoOp EXCEPT !.op = "remove", !.id = e, !.ret = r.ret ]
        /\ resident' = IF r.ret # NullT THEN resident \ {r.ret} ELSE resident
        /\ UNCHANGED << netAdds, fill >>

NextString ==
    /\ \/ \E e \in StrEntries, allocOk \in BOOLEAN : StrAdd(e, allocOk)
       \/ \E e \in StrEntries : StrLookup(e)
       \/ \E e \in StrEntries : StrRemove(e)
    /\ UNCHANGED << iterVars, chronVars, mixVars, alarmVars >>

SpecString == Init /\ [][NextString]_vars

(***************************************************************************)
(* The caller of integerHash: it instantiates the template for one pair of *)
(* widths and calls it on one identifier of that width.                    *)
(***************************************************************************)
\* the widest identifier the caller hashes
MaxIdWidth == 5

MixInputs ==
    { [ minIndexWidth |-> mn, maxIdWidth |-> mx, id |-> id, hashid |-> 0,
        pc |-> "call" ] :
        mn \in 0 .. (MaxIdWidth - 1), mx \in 1 .. MaxIdWidth,
        id \in 0 .. (Pow2(MaxIdWidth) - 1) }

InitMixer ==
    /\ InitTable
    /\ InitAlarm
    /\ mix \in { m \in MixInputs :
                   m.minIndexWidth < m.maxIdWidth /\ m.id < Pow2(m.maxIdWidth) }

IntegerHash ==
    /\ mix.pc = "call"
    /\ mix' = [ mix EXCEPT !.hashid = integerHash(mix.minIndexWidth,
                                                  mix.maxIdWidth, mix.id),
                           !.pc = "done" ]

NextMixer ==
    /\ IntegerHash
    /\ UNCHANGED << tableVars, last, resident, netAdds, fill,
                    iterVars, chronVars, alarmVars >>

SpecMixer == InitMixer /\ [][NextMixer]_vars

(***************************************************************************)
(* The record support that processes one record: it offers alarms with     *)
(* recGblSetSevr and commits them with recGblResetAlarms.                  *)
(***************************************************************************)
InitRecord ==
    /\ InitTable
    /\ InitMix
    /\ prec \in { [ NoRecord EXCEPT !.stat = st, !.sevr = sv,
                                    !.acks = ak, !.ackt = at ] :
                    st \in Statuses, sv \in Severities,
                    ak \in Severities, at \in BOOLEAN }
    /\ recGblAlarmHook \in BOOLEAN
    /\ offered = << >>
    /\ lastAlarm = NoAlarmOp

SetSevr(new_stat, new_sevr) ==
    \E r \in { recGblSetSevr(prec, new_stat, new_sevr) } :
        /\ Len(offered) < MaxOffers
        /\ prec' = r.prec
        /\ offered' = Append(offered, << new_stat, new_sevr >>)
        /\ lastAlarm' = [ NoAlarmOp EXCEPT !.op = "setSevr", !.stat = new_stat,
                                           !.sevr = new_sevr, !.ret = r.ret ]
        /\ UNCHANGED recGblAlarmHook

ResetAlarms ==
    \E r \in { recGblResetAlarms(prec, recGblAlarmHook) } :
        /\ prec' = r.prec
        /\ offered' = << >>
        /\ lastAlarm' = [ NoAlarmOp EXCEPT !.op = "reset", !.mask = r.ret,
                                           !.posts = r.posts,
                                           !.hooked = r.hooked ]
        /\ UNCHANGED recGblAlarmHook

NextAlarm ==
    /\ \/ \E st \in OfferedStatuses, sv \in Severities : SetSevr(st, sv)
       \/ ResetAlarms
    /\ UNCHANGED << tableVars, last, resident, netAdds, fill,
                    iterVars, chronVars, mixVars >>

SpecAlarm == InitRecord /\ [][NextAlarm]_vars

\* resTable::traverse (): the entries in the order in which they are visited
\* (the buckets i .. N-1 in ascending order; the empty ones contribute nothing
\* and are stepped over)
RECURSIVE traverseFrom(_, _, _)
traverseFrom(t, i, N) ==
    LET rest == { j \in DOMAIN t.pTable.chain : i <= j /\ j < N }
    IN  IF rest = {} THEN << >>
        ELSE LET b == CHOOSE j \in rest : \A k \in rest : j <= k
             IN  t.pTable.chain[b] \o traverseFrom(t, b + 1, N)

traverse(t) == traverseFrom(t, 0, tableSize(t))

(***************************************************************************)
(* Vocabulary of the properties.                                            *)
(***************************************************************************)
Range(seq) == { seq[k] : k \in 1 .. Len(seq) }
\* the entries a full traversal returns, as a set
Entries(t) == Range(traverse(t))
\* no entry is met twice by a full traversal
NoRepeat(seq) == Cardinality(Range(seq)) = Len(seq)
\* the number of buckets of the allocated array
Allocated(t) == t.pTable.n
HasStorage == pTable # NullTable
\* the last step was a completed add (it did not throw)
AddDone(l) == l.op = "add" /\ ~ l.threw

\* every entry sits in the bucket that resTable::hash gives for it
BucketConsistent(t) ==
    \A i \in DOMAIN t.pTable.chain :
        \A k \in 1 .. Len(t.pTable.chain[i]) : hash(t, t.pTable.chain[i][k]) = i
\* no two entries have identifiers that compare equal
Unique(t) ==
    \A i, j \in DOMAIN t.pTable.chain :
        \A k \in 1 .. Len(t.pTable.chain[i]), l \in 1 .. Len(t.pTable.chain[j]) :
            ID_equal(t.pTable.chain[i][k], t.pTable.chain[j][l]) => (i = j /\ k = l)
\* nInUse is the sum of the chain lengths of the buckets 0 .. tableSize()-1
CountConsistent(t) == numEntriesInstalled(t) = Len(traverse(t))
\* the assertions that verify () makes on the split state
WellFormed(t) ==
    IF t.pTable # NullTable
    THEN /\ 0 <= t.nextSplitIndex
         /\ t.nextSplitIndex <= t.hashIxMask + 1
         /\ t.hashIxMask # 0
         /\ t.hashIxMask = ShiftRight(t.hashIxSplitMask, 1)
         /\ t.hashIxSplitMask # 0
         /\ t.nBitsHashIxSplitMask # 0
         /\ resTableBitMask(t.nBitsHashIxSplitMask) = t.hashIxSplitMask
         /\ t.logBaseTwoTableSize # 0
         /\ t.nBitsHashIxSplitMask <= t.logBaseTwoTableSize
    ELSE /\ t.nextSplitIndex = 0
         /\ t.hashIxMask = 0
         /\ t.hashIxSplitMask = 0
         /\ t.nBitsHashIxSplitMask = 0
         /\ t.logBaseTwoTableSize = 0

TypeOK ==
    /\ nInUse \in Nat
    /\ fill \in 0 .. NumFill
    /\ resident \subseteq Ids

(***************************************************************************)
(* The claims.                                                              *)
(***************************************************************************)

\* C1: lookup(id) returns the entry exactly when the last successful add(id)
\* has not been followed by a remove(id) that returned it, and null in
\* every other state (no storage, before and after splits and doublings):
\* in every reachable state, for every identifier, and for the lookup that
\* was made last.
C1_LookupIffResident ==
    /\ \A t \in { This } : \A id \in Ids :
          lookup(t, id) = IF id \in resident THEN id ELSE NullT
    /\ last.op = "lookup" =>
          last.ret = IF last.id \in resident THEN last.id ELSE NullT

\* a lookup found an entry after the table was doubled and split again
C1_Witness ==
    /\ last.op = "lookup"
    /\ last.ret = last.id
    /\ last.id \in resident
    /\ nBitsHashIxSplitMask = 5
    /\ logBaseTwoTableSize = 5
    /\ nextSplitIndex > 0

\* C2: add of an identifier equal to that of a resident entry returns -1 and
\* leaves numEntriesInstalled() and the set of resident entries (what lookup
\* and a full traversal return) unchanged, with and without a split step.
C2_DuplicateAdd ==
    [][ AddDone(last') =>
        \A pre \in { This } : \A post \in { This' } :
          lookup(pre, last'.id) # NullT =>
            /\ last'.ret = -1
            /\ numEntriesInstalled(post) = numEntriesInstalled(pre)
            /\ Entries(post) = Entries(pre)
            /\ NoRepeat(traverse(post))
            /\ \A id \in Ids : lookup(post, id) = lookup(pre, id) ]_vars

\* a duplicate add that ran the split step
C2_Witness ==
    /\ AddDone(last)
    /\ last.ret = -1
    /\ last.split
    /\ ~ last.failed

\* C4: bucket consistency: every entry linked into the bucket array sits in
\* the bucket whose index is resTable::hash of the entry under the current
\* nextSplitIndex, hashIxMask and hashIxSplitMask.
C4_BucketConsistency == \A t \in { This } : BucketConsistent(t)

\* a split step has moved an entry into the bucket it created
C4_Witness ==
    /\ AddDone(last)
    /\ last.split
    /\ nextSplitIndex > 0
    /\ bucket(pTable, nextSplitIndex + hashIxMask) # EmptyList

\* C5: uniqueness: no two resident entries have identifiers that compare
\* equal (no identifier is met twice, in one bucket or in two).
C5_Uniqueness == \A t \in { This } : Unique(t)

\* a duplicate add was refused after its split step had moved the twin into
\* the bucket that the split created
C5_Witness ==
    /\ AddDone(last)
    /\ last.ret = -1
    /\ last.split
    /\ nextSplitIndex > 0
    /\ hash(This, last.id) = nextSplitIndex + hashIxMask

\* C6: count consistency: nInUse equals the sum of the chain lengths of the
\* buckets 0 .. tableSize()-1, which equals the number of successful adds
\* minus the number of successful removes.
C6_CountConsistency ==
    \A t \in { This } :
        /\ CountConsistent(t)
        /\ numEntriesInstalled(t) = netAdds

\* a remove of an absent identifier from a table that holds entries and has split
C6_Witness ==
    /\ last.op = "remove"
    /\ last.ret = NullT
    /\ nInUse > 0
    /\ nextSplitIndex > 0

\* C7: split-state well-formedness, the assertions of verify ().
C7_SplitStateWellFormed == \A t \in { This } : WellFormed(t)

\* every bucket of the generation has been split: nextSplitIndex is at its
\* upper bound
C7_Witness ==
    /\ HasStorage
    /\ nextSplitIndex = hashIxMask + 1
    /\ last.split

\* C3 as stated: add of a resident identifier changes no component of the
\* table state at all, in every state in which the call is made.
C3_NoMutationAtAll ==
    [][ AddDone(last') =>
        \A pre \in { This } : \A post \in { This' } :
          lookup(pre, last'.id) # NullT => post = pre ]_vars

\* C3 as amended: add of a resident identifier made while nInUse is below
\* tableSize() changes no component of the table state; made while nInUse
\* has reached tableSize() it first runs its split step, which changes
\* neither nInUse nor the entries that are resident, grows tableSize() by
\* at most one bucket and changes nothing when its allocation fails.
C3_NoMutationBelowCapacity ==
    [][ AddDone(last') =>
        \A pre \in { This } : \A post \in { This' } :
          lookup(pre, last'.id) # NullT =>
            IF numEntriesInstalled(pre) < tableSize(pre)
            THEN post = pre /\ ~ last'.split
            ELSE /\ last'.split
                 /\ numEntriesInstalled(post) = numEntriesInstalled(pre)
                 /\ Entries(post) = Entries(pre)
                 /\ tableSize(post) = tableSize(pre) + (IF last'.failed THEN 0 ELSE 1)
                 /\ last'.failed => post = pre ]_vars

\* a duplicate add made below capacity on a table that has split before
C3_Witness ==
    /\ AddDone(last)
    /\ last.ret = -1
    /\ ~ last.split
    /\ nextSplitIndex > 0

\* C8: growth preserves content: a split step in add, the doubling of the
\* bucket array at rollover and a setTableSize call leave the entries that a
\* full traversal returns the same, none lost and none met twice.
C8_GrowthPreservesContent ==
    [][ \A pre \in { This } : \A post \in { This' } :
          /\ (AddDone(last') /\ last'.split) =>
                \A g \in { splitBucket(pre, ~ last'.failed).t } :
                  /\ Entries(g) = Entries(pre)
                  /\ Len(traverse(g)) = Len(traverse(pre))
                  /\ NoRepeat(traverse(g))
                  /\ Entries(post) =
                        Entries(pre) \cup (IF last'.ret = 0 THEN { last'.id } ELSE {})
                  /\ NoRepeat(traverse(post))
          /\ (AddDone(last') /\ last'.split /\ last'.tried /\ ~ last'.failed) =>
                traverse(setTableSizePrivate(pre, pre.nBitsHashIxSplitMask + 1, TRUE).t)
                    = traverse(pre)
          /\ last'.op = "setTableSize" => traverse(post) = traverse(pre) ]_vars

\* an add has doubled the bucket array of a table that holds entries in the
\* buckets made by earlier splits, and has then split bucket 0
C8_Witness ==
    /\ AddDone(last)
    /\ last.split
    /\ last.tried
    /\ ~ last.failed
    /\ nextSplitIndex = 1
    /\ nInUse >= 16

\* C9: capacity is monotone: neither tableSize() nor the number of allocated
\* buckets, 2^logBaseTwoTableSize, ever decreases, and remove () leaves both
\* unchanged.
C9_CapacityMonotone ==
    [][ \A pre \in { This } : \A post \in { This' } :
          /\ tableSize(post) >= tableSize(pre)
          /\ post.logBaseTwoTableSize >= pre.logBaseTwoTableSize
          /\ Allocated(post) >= Allocated(pre)
          /\ post.pTable # NullTable =>
                Allocated(post) = Pow2(post.logBaseTwoTableSize)
          /\ last'.op = "remove" =>
                /\ tableSize(post) = tableSize(pre)
                /\ post.logBaseTwoTableSize = pre.logBaseTwoTableSize
                /\ Allocated(post) = Allocated(pre) ]_vars

\* a remove has emptied a table that had grown by splitting
C9_Witness ==
    /\ last.op = "remove"
    /\ last.ret # NullT
    /\ nInUse = 0
    /\ nextSplitIndex > 0

\* C10: when the allocation that doubles the bucket array fails during an
\* add on a table that has storage, the split attempt changes nothing, the
\* add completes as if no split had been due (it links the entry or reports
\* the duplicate) with the invariants holding, and the table is left in a
\* state in which the next add attempts the same allocation again.
C10_RecoverableAllocFailure ==
    [][ AddDone(last') =>
        \A pre \in { This } : \A post \in { This' } :
          /\ last'.failed =>
               /\ splitBucket(pre, FALSE).t = pre
               /\ post = addTail(pre, last'.id).t
               /\ last'.ret = IF lookup(pre, last'.id) # NullT THEN -1 ELSE 0
               /\ last'.ret = 0 => lookup(post, last'.id) = last'.id
               /\ << post.nextSplitIndex, post.hashIxMask, post.hashIxSplitMask,
                     post.nBitsHashIxSplitMask, post.logBaseTwoTableSize,
                     post.pTable.n >>
                  = << pre.nextSplitIndex, pre.hashIxMask, pre.hashIxSplitMask,
                       pre.nBitsHashIxSplitMask, pre.logBaseTwoTableSize,
                       pre.pTable.n >>
               /\ BucketConsistent(post) /\ Unique(post)
               /\ CountConsistent(post) /\ WellFormed(post)
               /\ numEntriesInstalled(post) >= tableSize(post)
               /\ post.nextSplitIndex > post.hashIxMask
               /\ post.logBaseTwoTableSize < post.nBitsHashIxSplitMask + 1
          /\ ( /\ pre.pTable # NullTable
               /\ numEntriesInstalled(pre) >= tableSize(pre)
               /\ pre.nextSplitIndex > pre.hashIxMask
               /\ pre.logBaseTwoTableSize < pre.nBitsHashIxSplitMask + 1 )
             => last'.split /\ last'.tried ]_vars

\* after a failed attempt an add has tried the doubling again and succeeded:
\* the table holds more entries than buckets although it has just grown
C10_Witness ==
    /\ AddDone(last)
    /\ last.split
    /\ last.tried
    /\ ~ last.failed
    /\ nInUse > (hashIxMask + 1) + nextSplitIndex

(***************************************************************************)
(* C11: when the very first allocation fails (the table has no storage     *)
(* yet, reached through the first add or through setTableSize) the failure *)
(* leaves the call as an exception, no entry is inserted, and the table    *)
(* stays in the state of the constructor: no storage, every field of the   *)
(* split state 0, nInUse 0.                                                *)
(***************************************************************************)
C11_FatalAllocFailure ==
    [][ last'.op \in { "add", "setTableSize" } =>
          \A pre \in { This } : \A post \in { This' } :
            /\ (last'.failed /\ pre.pTable = NullTable) => last'.threw
            /\ last'.threw =>
                 /\ pre.pTable = NullTable
                 /\ post = pre
                 /\ post = resTableCtor
                 /\ resident' = resident
                 /\ Entries(post) = {} ]_vars

C11_Witness ==
    /\ last.op = "add"
    /\ last.threw
    /\ pTable = NullTable
    /\ nInUse = 0

\* the smallest k with 2^k >= n
CeilLog2(n) ==
    CHOOSE k \in 0 .. UnsignedBits : Pow2(k) >= n /\ (k = 0 \/ Pow2(k - 1) < n)

Max(a, b) == IF a >= b THEN a ELSE b

(***************************************************************************)
(* C12: for every hint >= 1, setTableSize (hint) on a table that has no    *)
(* storage yet allocates exactly max (16, smallest power of two >= hint)   *)
(* buckets: logBaseTwoTableSize becomes max (4, ceil (log2 (hint))) and    *)
(* the storage is not null afterwards.  The calls whose allocation fails   *)
(* are left aside.                                                         *)
(***************************************************************************)
C12_SetTableSizeRounding ==
    [][ (last'.op = "setTableSize" /\ last'.id >= 1 /\ ~ last'.failed) =>
          \A pre \in { This } : \A post \in { This' } :
            pre.pTable = NullTable =>
              /\ post.pTable # NullTable
              /\ post.logBaseTwoTableSize = Max(4, CeilLog2(last'.id))
              /\ post.pTable.n = Max(16, Pow2(CeilLog2(last'.id))) ]_vars

(***************************************************************************)
(* C13: setTableSize only grows: a call setTableSize (hint) whose hint is  *)
(* not larger than the capacity of the table (the buckets in use, and even *)
(* the buckets allocated), and likewise a call with hint 0, changes no     *)
(* component of the table state and allocates nothing; no call of          *)
(* setTableSize reduces the allocated bucket count or the logical          *)
(* capacity.                                                               *)
(***************************************************************************)
C13_SetTableSizeOnlyGrows ==
    [][ last'.op = "setTableSize" =>
          \A pre \in { This } : \A post \in { This' } :
            /\ (last'.id = 0 \/ last'.id <= tableSize(pre)
                             \/ last'.id <= Allocated(pre)) =>
                  /\ post = pre
                  /\ ~ last'.tried
                  /\ ~ last'.threw
            /\ Allocated(post) >= Allocated(pre)
            /\ tableSize(post) >= tableSize(pre)
            /\ Entries(post) = Entries(pre) ]_vars

\* a hint of 17 was offered to a populated table of 32 buckets
C13_Witness ==
    /\ last.op = "setTableSize"
    /\ last.id = 17
    /\ ~ last.tried
    /\ logBaseTwoTableSize = 5
    /\ nInUse > 0

\* the list without the entries whose identifier is idIn, the others in
\* their order
Without(list, idIn) == SelectSeq(list, LAMBDA x : ~ ID_equal(x, idIn))

\* every field of the split state and the number of buckets allocated
SplitState(t) ==
    << t.nextSplitIndex, t.hashIxMask, t.hashIxSplitMask,
       t.nBitsHashIxSplitMask, t.logBaseTwoTableSize, t.pTable.n >>

(***************************************************************************)
(* C16: remove (id) of a resident identifier returns the entry with that   *)
(* identifier, decrements numEntriesInstalled () by exactly one and leaves *)
(* every other entry in the same bucket and in the same relative chain     *)
(* order; the split state and the capacity are unchanged; only the bucket  *)
(* hash (id) is touched, whether the match is the head, in the middle or   *)
(* the tail of its chain.                                                  *)
(***************************************************************************)
C16_RemoveFrame ==
    [][ last'.op = "remove" =>
          \A pre \in { This } : \A post \in { This' } :
            last'.id \in Entries(pre) =>
              /\ intIdEqual(last'.ret, last'.id)
              /\ last'.ret # NullT
              /\ numEntriesInstalled(post) = numEntriesInstalled(pre) - 1
              /\ SplitState(post) = SplitState(pre)
              /\ tableSize(post) = tableSize(pre)
              /\ DOMAIN post.pTable.chain \subseteq DOMAIN pre.pTable.chain
              /\ \A j \in DOMAIN pre.pTable.chain :
                    /\ bucket(post.pTable, j) =
                          Without(bucket(pre.pTable, j), last'.id)
                    /\ j # hash(pre, last'.id) =>
                          bucket(post.pTable, j) = bucket(pre.pTable, j)
              /\ Len(bucket(post.pTable, hash(pre, last'.id))) = last'.len - 1 ]_vars

\* an entry was removed from the middle of its chain
C16_Witness ==
    /\ last.op = "remove"
    /\ last.ret # NullT
    /\ 1 < last.pos
    /\ last.pos < last.len

(***************************************************************************)
(* C17: remove (id) and lookup (id) of an identifier that is not resident  *)
(* return null and change no component of the table state, in every        *)
(* reachable state, the table without storage included (neither call       *)
(* allocates); lookup changes nothing when it finds the entry either.      *)
(***************************************************************************)
C17_NotFoundIsAValue ==
    [][ \A pre \in { This } : \A post \in { This' } :
          /\ (last'.op \in { "remove", "lookup" } /\ last'.id \notin Entries(pre)) =>
                /\ last'.ret = NullT
                /\ ~ last'.threw
                /\ post = pre
                /\ resident' = resident
          /\ last'.op = "lookup" =>
                /\ post = pre
                /\ last'.id \in Entries(pre) => last'.ret = last'.id ]_vars

\* a remove found a chain in the bucket of its identifier but no match
C17_Witness ==
    /\ last.op = "remove"
    /\ last.ret = NullT
    /\ last.pos = 0
    /\ last.len > 0

(***************************************************************************)
(* C14: traverse (action) invokes action exactly once for every entry that *)
(* is resident when the traversal starts, in the order of the buckets and  *)
(* of their chains, and this holds also when the action removes from the   *)
(* table the entry it is invoked on: no entry is skipped, none is visited  *)
(* twice, and when every invocation removes its own entry the table ends   *)
(* with numEntriesInstalled () = 0, its split state untouched.             *)
(***************************************************************************)
C14_TraverseVisitsOnce ==
    [][ last'.op = "traverse" =>
          \A pre \in { This } : \A post \in { This' } :
            /\ NoRepeat(last'.calls)
            /\ Range(last'.calls) = resident
            /\ Len(last'.calls) = numEntriesInstalled(pre)
            /\ last'.calls = traverse(pre)
            /\ last'.cb = "none" => post = pre
            /\ last'.cb = "removeSelf" =>
                  /\ numEntriesInstalled(post) = 0
                  /\ post.pTable.chain = << >>
                  /\ SplitState(post) = SplitState(pre) ]_vars

\* a traversal whose callback removes its own entry has emptied a table in
\* which some chain held three entries
C14_Witness ==
    /\ last.op = "traverse"
    /\ last.cb = "removeSelf"
    /\ nInUse = 0
    /\ \E k \in 1 .. (Len(last.calls) - 2) :
          \E t \in { [ This EXCEPT !.nInUse = 1 ] } :
            /\ hash(t, last.calls[k]) = hash(t, last.calls[k + 1])
            /\ hash(t, last.calls[k]) = hash(t, last.calls[k + 2])

\* seq is the beginning of full
IsPrefix(seq, full) ==
    /\ Len(seq) <= Len(full)
    /\ SubSeq(full, 1, Len(seq)) = seq

(***************************************************************************)
(* C15: on a table that is not modified during the walk, the successive    *)
(* calls of resTableIter::next () return every resident entry exactly      *)
(* once, in non-decreasing order of the bucket index (bucket 0 first, the  *)
(* chain of every bucket in chain order); next () returns null only after  *)
(* all of them, and then on every later call; every new iterator on the    *)
(* same table yields the same sequence; and on a table without storage the *)
(* first next () returns null.                                             *)
(***************************************************************************)
C15_IteratorWalk ==
    walk.on =>
      /\ IsPrefix(walk.seq, traverse(This))
      /\ NoRepeat(walk.seq)
      /\ Range(walk.seq) \subseteq resident
      /\ \A k \in 1 .. (Len(walk.seq) - 1) :
            hash(This, walk.seq[k]) <= hash(This, walk.seq[k + 1])
      /\ walk.nulls > 0 =>
            /\ walk.seq = traverse(This)
            /\ Range(walk.seq) = resident
            /\ Len(walk.seq) = numEntriesInstalled(This)
            /\ iter = NullT
      /\ pTable = NullTable => walk.seq = << >>

\* a walk over a table that has split, with a chain of three entries, has
\* returned every entry and then null twice
C15_Witness ==
    /\ walk.on
    /\ walk.nulls = MaxNulls
    /\ Len(walk.seq) >= 3
    /\ nextSplitIndex > 0
    /\ \E j \in DOMAIN pTable.chain : Len(pTable.chain[j]) >= 3

\* the last step was a pass of the loop of chronIntIdResTable::add
ChronPass(l) == l.op = "chronAdd"
\* the first identifier that is not in res, going from a upwards modulo
\* 2^CounterBits (res does not hold every identifier)
FirstFree(a, res) ==
    LET M == Pow2(CounterBits)
        d == CHOOSE d \in 0 .. (M - 1) :
                /\ (a + d) % M \notin res
                /\ \A e \in 0 .. (d - 1) : (a + e) % M \in res
    IN  (a + d) % M

(***************************************************************************)
(* C18: on a chronIntIdResTable, from its construction until allocId wraps *)
(* around, the k-th call of add gives its item the identifier k: the       *)
(* identifiers are 1, 2, ... in call order, above every identifier that is *)
(* resident, whatever was removed in between; the call is a single pass of *)
(* the loop; unless the first allocation threw, the item and every other   *)
(* resident item is afterwards found by lookup under its identifier, and   *)
(* the assertions of verify () hold.                                       *)
(***************************************************************************)
C18_ChronologicalIds ==
    [][ (ChronPass(last') /\ ~ chron.wrapped) =>
          \A post \in { This' } :
            /\ chron.pc = "idle"
            /\ last'.id = chron'.calls
            /\ last'.id = allocId
            /\ \A i \in resident : i < last'.id
            /\ chron'.pc = "idle"
            /\ chron'.passes = 1
            /\ ~ last'.threw =>
                  /\ last'.ret = 0
                  /\ resident' = resident \cup { last'.id }
                  /\ \A i \in resident' : lookup(post, i) = i
                  /\ WellFormed(post)
                  /\ BucketConsistent(post)
                  /\ CountConsistent(post) ]_vars

\* the fifth call of add has given the identifier 5, after some of the
\* items added before were removed
C18_Witness ==
    /\ ChronPass(last)
    /\ ~ last.threw
    /\ last.id = 5
    /\ chron.calls = 5
    /\ Cardinality(resident) < 4
    /\ lookup(This, 5) = 5

(***************************************************************************)
(* C19: chronIntIdResTable::add with the counter of CounterBits bits that  *)
(* wraps around: a pass of the loop goes round again exactly when the      *)
(* identifier it tried is resident, so the call ends as soon as allocId    *)
(* meets an identifier that is not resident; the identifier the call       *)
(* assigns is the first one not resident from the allocId the call started *)
(* with, going upwards modulo 2^CounterBits; it is the identifier of no    *)
(* other resident entry, and every entry that was resident still is, under *)
(* the identifier it had.                                                  *)
(***************************************************************************)
C19_WrapAround ==
    [][ (ChronPass(last') /\ ~ last'.threw) =>
          \A pre \in { This } : \A post \in { This' } :
            /\ last'.id = allocId
            /\ allocId' = (allocId + 1) % Pow2(CounterBits)
            /\ (chron'.pc = "probing") <=> (allocId \in resident)
            /\ Entries(pre) \subseteq Entries(post)
            /\ \A i \in resident : lookup(post, i) = i
            /\ chron'.pc = "probing" =>
                  /\ resident' = resident
                  /\ Entries(post) = Entries(pre)
            /\ chron'.pc = "idle" =>
                  /\ last'.ret = 0
                  /\ last'.id \notin resident
                  /\ last'.id = FirstFree(chron'.start, resident)
                  /\ resident' = resident \cup { last'.id }
                  /\ Entries(post) = Entries(pre) \cup { last'.id }
                  /\ numEntriesInstalled(post) = numEntriesInstalled(pre) + 1
                  /\ Unique(post) ]_vars

\* after allocId has wrapped around, a call of add has stepped over
\* identifiers that are resident and assigned the first one that is not
C19_Witness ==
    /\ ChronPass(last)
    /\ chron.pc = "idle"
    /\ last.ret = 0
    /\ chron.wrapped
    /\ last.id # chron.start
    /\ Cardinality(resident) >= 4

(***************************************************************************)
(* C20: chronIntIdResTable::add always terminates: it tries the            *)
(* identifiers upwards until one is free or the table is known to be full, *)
(* so a call makes at most as many passes of its loop as there are         *)
(* identifiers, 2^CounterBits, and does not go on when every one of them   *)
(* has been tried and is resident.                                         *)
(***************************************************************************)
C20_AddTerminates == chron.passes <= Pow2(CounterBits)

(***************************************************************************)
(* C22: an add () on a table that has storage performs a split step if and *)
(* only if numEntriesInstalled () >= tableSize () at entry, and then       *)
(* exactly one: when the allocation it may need succeeds, tableSize ()     *)
(* grows by exactly one bucket, only the entries of the bucket at the      *)
(* split index are relinked, each of them ends in that same bucket or in   *)
(* the bucket at split index + hashIxMask + 1, and the contents of every   *)
(* other bucket are unchanged.                                             *)
(***************************************************************************)
C22_SplitStep ==
    [][ AddDone(last') =>
        \A pre \in { This } : \A post \in { This' } :
          pre.pTable # NullTable =>
            /\ last'.split <=> (numEntriesInstalled(pre) >= tableSize(pre))
            /\ ~ last'.split =>
                  /\ tableSize(post) = tableSize(pre)
                  /\ SplitState(post) = SplitState(pre)
            /\ (last'.split /\ ~ last'.failed) =>
                  LET s == IF pre.nextSplitIndex > pre.hashIxMask
                           THEN 0 ELSE pre.nextSplitIndex
                      up == s + post.hashIxMask + 1
                      old(i) == bucket(pre.pTable, i)
                      now(i) == IF last'.ret = 0
                                THEN Without(bucket(post.pTable, i), last'.id)
                                ELSE bucket(post.pTable, i)
                  IN  /\ tableSize(post) = tableSize(pre) + 1
                      /\ post.nextSplitIndex = s + 1
                      /\ up = tableSize(pre)
                      /\ old(up) = EmptyList
                      /\ Range(now(s)) \cup Range(now(up)) = Range(old(s))
                      /\ Len(now(s)) + Len(now(up)) = Len(old(s))
                      /\ \A i \in (DOMAIN pre.pTable.chain
                                     \cup DOMAIN post.pTable.chain) \ { s, up } :
                            now(i) = old(i) ]_vars

\* an add has split a bucket whose entries went to both halves: some stayed
\* in the bucket at the split index and some moved to the new bucket
C22_Witness ==
    /\ AddDone(last)
    /\ last.split
    /\ ~ last.failed
    /\ nextSplitIndex >= 1
    /\ Without(bucket(pTable, nextSplitIndex - 1), last.id) # EmptyList
    /\ Without(bucket(pTable, nextSplitIndex + hashIxMask), last.id) # EmptyList

\* the table between the rollover and the split of bucket 0, as the step
\* from pre to post shows it: the array and the masks of post over the
\* chains of pre, with nextSplitIndex at 0
Rolled(pre, post) ==
    [ post EXCEPT !.pTable = [ n |-> post.pTable.n, chain |-> pre.pTable.chain ],
                  !.nextSplitIndex = 0,
                  !.nInUse = pre.nInUse ]

(***************************************************************************)
(* C23: a split step requested while nextSplitIndex > hashIxMask first     *)
(* makes the bucket array hold at least 2^(nBitsHashIxSplitMask+1)         *)
(* buckets, the buckets 0 .. tableSize()-1 migrated unchanged and the new  *)
(* upper buckets empty, then increments nBitsHashIxSplitMask, sets         *)
(* hashIxSplitMask = 2^nBits - 1 and hashIxMask = hashIxSplitMask >> 1,    *)
(* resets nextSplitIndex to 0, and only then splits bucket 0; the rollover *)
(* itself rehashes no entry and leaves tableSize () and the bucket index   *)
(* of every entry unchanged until the split of bucket 0.                   *)
(***************************************************************************)
C23_GenerationRollover ==
    [][ (AddDone(last') /\ last'.split /\ ~ last'.failed) =>
        \A pre \in { This } : \A post \in { This' } :
          pre.nextSplitIndex > pre.hashIxMask =>
            \A r \in { setTableSizePrivate(pre, pre.nBitsHashIxSplitMask + 1, TRUE).t } :
            \A g \in { Rolled(pre, post) } :
              \* the array is large enough, and was only enlarged if it was not
              /\ r.pTable.n >= Pow2(pre.nBitsHashIxSplitMask + 1)
              /\ last'.tried <=>
                    (pre.pTable.n < Pow2(pre.nBitsHashIxSplitMask + 1))
              /\ ~ last'.tried => r = pre
              /\ r.pTable.chain = pre.pTable.chain
              /\ \A i \in DOMAIN r.pTable.chain : i < tableSize(pre)
              /\ \A i \in tableSize(pre) .. (r.pTable.n - 1) :
                    bucket(r.pTable, i) = EmptyList
              /\ << r.nextSplitIndex, r.hashIxMask, r.hashIxSplitMask,
                    r.nBitsHashIxSplitMask, r.nInUse >>
                 = << pre.nextSplitIndex, pre.hashIxMask, pre.hashIxSplitMask,
                      pre.nBitsHashIxSplitMask, pre.nInUse >>
              /\ post.pTable.n = r.pTable.n
              \* the split state of the new generation
              /\ post.nBitsHashIxSplitMask = pre.nBitsHashIxSplitMask + 1
              /\ post.hashIxSplitMask = Pow2(post.nBitsHashIxSplitMask) - 1
              /\ post.hashIxMask = post.hashIxSplitMask \div 2
              /\ post.hashIxMask = pre.hashIxSplitMask
              /\ post.nextSplitIndex = 1
              \* the rollover moves nothing
              /\ tableSize(g) = tableSize(pre)
              /\ \A e \in Entries(pre) : hash(g, e) = hash(pre, e)
              /\ BucketConsistent(g)
              \* and the step is the split of bucket 0 of the rolled table,
              \* followed by the tail of add
              /\ ~ doubleDue(g)
              /\ post = addTail(splitBucket(g, TRUE).t, last'.id).t ]_vars

\* an add has rolled the generation over after enlarging the array, and the
\* split of bucket 0 that followed has moved an entry to the first bucket of
\* the new upper half
C23_Witness ==
    /\ AddDone(last)
    /\ last.split
    /\ last.tried
    /\ ~ last.failed
    /\ nextSplitIndex = 1
    /\ Without(bucket(pTable, hashIxMask + 1), last.id) # EmptyList

\* raw hash values are probed through these identifiers: those the caller
\* uses and some whose hash has high bits set
ProbeIds == Ids \cup { 0, 255, 256, 4095, 65535, 65536, 1073741823 }
\* the raw hash of the probes, idIn.hash ()
RawHash == [ id \in ProbeIds |-> intIdHash(id) ]
\* the three members that resTable::hash reads
Addressing(t) == << t.hashIxMask, t.hashIxSplitMask, t.nextSplitIndex >>

(***************************************************************************)
(* C24: in every reachable split state of a table with storage and for     *)
(* every raw hash h, resTable::hash returns h & hashIxMask when that value *)
(* is >= nextSplitIndex and h & hashIxSplitMask otherwise, where           *)
(* hashIxSplitMask = 2*hashIxMask + 1; hence the bucket index of an entry  *)
(* changes at most once per generation, only in the split of its bucket,   *)
(* and then from i to i + hashIxMask + 1.  (The index is a function of the *)
(* three members hashIxMask, hashIxSplitMask and nextSplitIndex, so it is  *)
(* examined at the steps that change one of them.)                         *)
(***************************************************************************)
C24_BucketAddressing ==
    [][ \A pre \in { This } : \A post \in { This' } :
        Addressing(post) # Addressing(pre) =>
          /\ post.pTable # NullTable
          /\ post.hashIxSplitMask = 2 * post.hashIxMask + 1
          /\ \E k \in 1 .. UnsignedBits : post.hashIxMask + 1 = Pow2(k)
          /\ \A id \in ProbeIds :
                LET h == RawHash[id]
                    lo == h % (post.hashIxMask + 1)
                IN  hash(post, id) =
                      IF lo >= post.nextSplitIndex
                      THEN lo
                      ELSE h % (post.hashIxSplitMask + 1)
          /\ pre.pTable # NullTable =>
               \A id \in ProbeIds :
               \A i \in { hash(pre, id) } : \A j \in { hash(post, id) } :
                 LET moves == /\ AddDone(last') /\ last'.split /\ ~ last'.failed
                              /\ i = post.nextSplitIndex - 1
                              /\ (RawHash[id] \div (post.hashIxMask + 1)) % 2 = 1
                 IN  /\ j # i <=> moves
                     /\ moves =>
                          /\ j = i + post.hashIxMask + 1
                          /\ i <= post.hashIxMask
                          /\ j >= post.nextSplitIndex ]_vars

\* after a split step one resident entry sits in a bucket above hashIxMask,
\* where the split of its bucket has moved it, and another one sits in a
\* bucket that was split and has kept it
C24_Witness ==
    /\ HasStorage
    /\ AddDone(last)
    /\ last.split
    /\ \E id \in resident : hash(This, id) > hashIxMask
    /\ \E id \in resident : hash(This, id) < nextSplitIndex

(***************************************************************************)
(* C27: in every reachable state with storage and for every raw hash, the  *)
(* index returned by resTable::hash is < tableSize (), and tableSize () is *)
(* at most 2^logBaseTwoTableSize, the number of buckets allocated; so no   *)
(* entry sits in a bucket outside the array or outside the buckets         *)
(* 0 .. tableSize()-1 that traverse, the iterator and verify scan.         *)
(***************************************************************************)
C27_IndexInBounds ==
    \A t \in { This } :
      t.pTable # NullTable =>
        /\ \A id \in ProbeIds : \A i \in { hash(t, id) } :
              0 <= i /\ i < tableSize(t)
        /\ t.nextSplitIndex < tableSize(t)
        /\ tableSize(t) <= Pow2(t.logBaseTwoTableSize)
        /\ Allocated(t) = Pow2(t.logBaseTwoTableSize)
        /\ \A i \in DOMAIN t.pTable.chain : 0 <= i /\ i < tableSize(t)
        /\ Len(traverse(t)) =
              Len(traverseFrom(t, 0, Allocated(t)))

\* every allocated bucket is in use and the last one holds an entry
C27_Witness ==
    /\ HasStorage
    /\ tableSize(This) = Pow2(logBaseTwoTableSize)
    /\ bucket(pTable, Pow2(logBaseTwoTableSize) - 1) # EmptyList

\* the resident count does not exceed the logical capacity
WithinLoad(t) == numEntriesInstalled(t) <= tableSize(t)

(***************************************************************************)
(* C28: as long as no allocation fails, after every completed add, remove  *)
(* or setTableSize numEntriesInstalled () <= tableSize (), because every   *)
(* add made at full load first grows the capacity by one bucket; the bound *)
(* is exceeded only after a failed growth attempt.  (Stated on the steps:  *)
(* the table is constructed within the bound, a call without a failed      *)
(* allocation keeps it, and a call that breaks it had one.)                *)
(***************************************************************************)
C28_LoadBound ==
    [][ \A pre \in { This } : \A post \in { This' } :
          /\ (WithinLoad(pre) /\ ~ last'.failed) => WithinLoad(post)
          /\ (WithinLoad(pre) /\ ~ WithinLoad(post)) =>
                /\ AddDone(last')
                /\ last'.split /\ last'.tried /\ last'.failed
                /\ tableSize(post) = tableSize(pre)
          /\ ( /\ AddDone(last')
               /\ pre.pTable # NullTable
               /\ numEntriesInstalled(pre) >= tableSize(pre)
               /\ ~ last'.failed ) =>
                /\ tableSize(post) = tableSize(pre) + 1
                /\ numEntriesInstalled(post) <= numEntriesInstalled(pre) + 1
          /\ WithinLoad(resTableCtor) ]_vars

\* an add made at full load has grown the capacity by one bucket and linked
\* its entry: the table is at full load again
C28_Witness ==
    /\ AddDone(last)
    /\ last.split
    /\ ~ last.failed
    /\ last.ret = 0
    /\ numEntriesInstalled(This) = tableSize(This)
    /\ nInUse > 0

\* the byte string a buffer holds: its bytes before the first terminator
Content(buf) == SubSeq(buf, 1, strlen(buf))
\* the entries whose identifier has the content of that of e
SameContent(e) ==
    { f \in StrEntries : Content(entryBuffer(f)) = Content(entryBuffer(e)) }

(***************************************************************************)
(* C21: stringId is insensitive to the allocation type: a stringId built   *)
(* with copyString and one built with refString over buffers that hold the *)
(* same byte string return the same hash () value and compare equal with   *)
(* operator == in both argument orders, so an entry added under one type   *)
(* is found by lookup and rejected as a duplicate by add under the other.  *)
(***************************************************************************)
C21_AllocationModeInsensitive ==
    [][ last'.op \in { "add", "lookup", "remove" } =>
        \A pre \in { This } : \A post \in { This' } :
        \A e \in { last'.id } : \A f \in SameContent(last'.id) :
          /\ entryHash[f] = entryHash[e]
          /\ stringIdEqual(entryId(e), entryId(f))
          /\ stringIdEqual(entryId(f), entryId(e))
          /\ ID_hash(f) = ID_hash(e)
          /\ (AddDone(last') /\ last'.ret = 0) =>
                /\ lookup(post, f) = e
                /\ add(post, f, TRUE).ret = -1
          /\ (last'.op = "lookup" /\ f \in resident) => last'.ret = f
          /\ (AddDone(last') /\ f \in resident) => last'.ret = -1
          /\ (last'.op = "remove" /\ f \in resident) => last'.ret = f ]_vars

\* an entry that was added under one allocation type, from one buffer, was
\* found by a lookup under the other type, from another buffer
C21_Witness ==
    /\ last.op = "lookup"
    /\ last.ret # NullT
    /\ IsStrEntry(last.id)
    /\ entryType(last.ret) # entryType(last.id)
    /\ entryBuffer(last.ret) # entryBuffer(last.id)
    /\ Len(Content(entryBuffer(last.id))) > 4

\* the identifier with one bit inverted
FlipBit(id, b) == BitXor(id, Pow2(b))
\* the shift widths of the fold: maxIdWidth halved again and again, down to
\* the first one that is <= minIndexWidth
RECURSIVE FoldWidths(_, _)
FoldWidths(minIndexWidth, w) ==
    IF w \div 2 > minIndexWidth
    THEN << w \div 2 >> \o FoldWidths(minIndexWidth, w \div 2)
    ELSE << w \div 2 >>
\* h folded with the widths of ws, in order
RECURSIVE FoldWith(_, _)
FoldWith(h, ws) ==
    IF ws = << >> THEN h
    ELSE FoldWith(BitXor(h, h \div Pow2(Head(ws))), Tail(ws))

(***************************************************************************)
(* C25: for every pair 0 <= minIndexWidth < maxIdWidth, minIndexWidth = 0  *)
(* included, and every id, integerHash folds the id by XOR-ing it with     *)
(* itself shifted right by successively halved widths until the width is   *)
(* <= minIndexWidth, and two ids that differ in exactly one bit below      *)
(* maxIdWidth never have the same hash value.                              *)
(***************************************************************************)
C25_IntegerMixer ==
    mix.pc = "done" =>
      /\ mix.hashid =
            FoldWith(mix.id, FoldWidths(mix.minIndexWidth, mix.maxIdWidth))
      /\ \A b \in 0 .. (mix.maxIdWidth - 1) :
            integerHash(mix.minIndexWidth, mix.maxIdWidth, FlipBit(mix.id, b))
              # mix.hashid

(***************************************************************************)
(* C26: stringId::hash packs the four lane accumulators h0 .. h3, each     *)
(* advanced over every fourth byte through the permutation table up to the *)
(* first terminator, into one word and mixes it so that every lane         *)
(* influences the low 8 bits of the index returned: for each lane there    *)
(* are two packed words that differ only in the byte of that lane and      *)
(* whose mixed results differ in their low 8 bits.  (The mixing is XOR     *)
(* with shifted copies, so whether a change of a lane shows in the low 8   *)
(* bits does not depend on the other bits of the word: the words are those *)
(* of the identifier last used, with every byte value in the lane.)        *)
(***************************************************************************)
C26_LanesReachIndex ==
    (last.op # "none" /\ IsStrEntry(last.id)) =>
      \A h \in { stringIdLanes(entryId(last.id).pStr, 1, << 0, 0, 0, 0 >>) } :
        /\ entryHash[last.id] = mixLanes(packLanes(h))
        /\ \A k \in 1 .. 4 :
             \E b \in 0 .. 255 :
               WordLow(mixLanes(packLanes([ h EXCEPT ![k] = b ])), 8)
                 # WordLow(mixLanes(packLanes(h)), 8)

\* the greatest severity of the calls in seq, 0 if there is none
RECURSIVE MaxOffered(_)
MaxOffered(seq) ==
    IF seq = << >> THEN 0
    ELSE LET m == MaxOffered(Tail(seq))
         IN  IF Head(seq)[2] > m THEN Head(seq)[2] ELSE m
\* the status of the first call in seq that offered the severity sv
FirstStatus(seq, sv) ==
    seq[CHOOSE i \in 1 .. Len(seq) :
          /\ seq[i][2] = sv
          /\ \A j \in 1 .. (i - 1) : seq[j][2] # sv][1]
\* a call of recGblSetSevr changes nsta and nsev and returns TRUE exactly
\* when the severity it offers is above the pending one; otherwise it
\* changes nothing and returns FALSE
SetSevrStep ==
    lastAlarm'.op = "setSevr" =>
      /\ lastAlarm'.ret <=> (lastAlarm'.sevr > prec.nsev)
      /\ lastAlarm'.ret =>
            prec' = [ prec EXCEPT !.nsta = lastAlarm'.stat,
                                  !.nsev = lastAlarm'.sevr ]
      /\ ~ lastAlarm'.ret => prec' = prec
      /\ prec'.nsev = MaxOffered(offered')

(***************************************************************************)
(* C29 as stated: a call of recGblSetSevr changes the pending nsta/nsev    *)
(* and returns TRUE if and only if new_sevr is strictly greater than nsev, *)
(* otherwise it changes nothing and returns FALSE; hence after the calls   *)
(* made since the last recGblResetAlarms nsev is the maximum severity      *)
(* offered (0 if none exceeded 0) and nsta is the status of the first call *)
(* that offered that maximum.                                              *)
(***************************************************************************)
C29_SetSevrOnlyRaises ==
    [][ SetSevrStep /\
        (lastAlarm'.op = "setSevr" =>
            prec'.nsta = FirstStatus(offered', MaxOffered(offered'))) ]_vars

(***************************************************************************)
(* C29 amended: as above, but nsta is the status of the first call that    *)
(* offered the maximum only when that maximum is above 0; when no call     *)
(* offered a severity above 0, nsta is 0 like nsev, whatever statuses were *)
(* offered.                                                                *)
(***************************************************************************)
C29_SetSevrRaisesAboveZero ==
    [][ SetSevrStep /\
        (lastAlarm'.op = "setSevr" =>
            prec'.nsta = IF MaxOffered(offered') > 0
                         THEN FirstStatus(offered', MaxOffered(offered'))
                         ELSE 0) ]_vars

\* two calls have offered the same severity above 0 with different
\* statuses: the second was refused and nsta is the status of the first
C29_Witness ==
    /\ lastAlarm.op = "setSevr"
    /\ ~ lastAlarm.ret
    /\ Len(offered) = 2
    /\ offered[1][2] = offered[2][2]
    /\ offered[1][2] > 0
    /\ offered[1][1] # offered[2][1]
    /\ prec.nsta = offered[1][1]
    /\ prec.nsev = offered[1][2]

(***************************************************************************)
(* C30: recGblResetAlarms commits and clears the pending alarm: after the  *)
(* call stat and sevr hold the values nsta and nsev had before it, nsta    *)
(* and nsev are both 0, and the value returned is DBE_ALARM if stat or     *)
(* sevr changed and 0 if neither changed, in which case acks is left       *)
(* untouched and the alarm hook is not called.                             *)
(***************************************************************************)
C30_ResetCommitsAndClears ==
    [][ lastAlarm'.op = "reset" =>
          LET changed == prec'.stat # prec.stat \/ prec'.sevr # prec.sevr
          IN  /\ prec'.stat = prec.nsta
              /\ prec'.sevr = prec.nsev
              /\ prec'.nsta = 0
              /\ prec'.nsev = 0
              /\ prec'.ackt = prec.ackt
              /\ lastAlarm'.mask = IF changed THEN { "DBE_ALARM" } ELSE { }
              /\ ~ changed =>
                    /\ prec'.acks = prec.acks
                    /\ ~ lastAlarm'.hooked
                    /\ lastAlarm'.posts = << >> ]_vars

\* a call has committed an alarm that changed stat but not sevr: it has
\* returned DBE_ALARM and called the hook
C30_Witness ==
    /\ lastAlarm.op = "reset"
    /\ lastAlarm.mask = { "DBE_ALARM" }
    /\ lastAlarm.hooked
    /\ lastAlarm.posts[1] = << "stat", { "DBE_VALUE" } >>
    /\ prec.sevr > 0

====
